---- MODULE Spec2Model ----
(***************************************************************************)
(* Model of the leetFeedback extension's TakeUforward content script       *)
(* (attempt tracking and the sync pipeline run on a successful submission) *)
(* and of the ProblemTimer utility (active-time accounting).               *)
(*                                                                         *)
(* The event loop is single threaded: one action is one macrotask, i.e.    *)
(* the effect of the awaited operation that just completed together with   *)
(* the handler code that runs up to the next await.                        *)
(*                                                                         *)
(* Spec       page events, the AttemptTracker and the pipeline.  Network   *)
(*            collaborators may succeed, fail or throw; chrome.storage     *)
(*            operations complete successfully.                            *)
(* SpecTimer  the ProblemTimer under visibility events and clock ticks.    *)
(***************************************************************************)
EXTENDS Integers, Sequences, FiniteSets, TLC

VARIABLES
    \* ---- takeuforward.js, module-level state (lines 12-19)
    QUES, SELECTED_LANGUAGE, PUBLIC_CODE, PROBLEM_SLUG, TRIES,
    \* ---- TakeUforwardExtractor fields (lines 26-36)
    currentPathname, attempts, runCounter, incorrectRunCounter,
    hasAnalyzedMistakes, shouldAnalyzeWithGemini, aiAnalysis, aiTags,
    \* ---- the page and the stores
    locationPath,          \* window.location.pathname
    storage,               \* chrome.storage.local: problem_data_<key> records
    tuf_code_data,         \* chrome.storage.local: tuf_code_data
    gemini_api_key,        \* chrome.storage.sync: an analysis credential is set
    github_push_enabled,   \* chrome.storage.sync: the code-host toggle
    \* ---- handlers in flight
    pendingSubmits,        \* CODE_SUBMIT handlers waiting for storage.set
    runs,                  \* handleSuccessfulSubmission invocations, in start order
    \* ---- observation of the run (history)
    latchCalls,            \* handleThreeIncorrectRuns calls since the last clear, up to 2
    failedRuns,            \* CODE_RUN then failing RUN_RESPONSE pairs since the last identity change, up to the threshold
    awaitingRunResult,     \* a CODE_RUN arrived and no RUN_RESPONSE since
    evCount,               \* page events delivered so far
    lastEvent,             \* the kind of the last page event
    \* ---- ProblemTimer (problem-timer.js lines 14-18, 21, 34)
    timerLoaded,           \* window.ProblemTimer is defined on the page
    now,                   \* Date.now(), in ticks
    problemUrl, startTime, pausedTime, isTabHidden, tabHiddenAt,
    overlay,               \* the overlay is shown and its display interval runs
    docHidden,             \* document.hidden
    browser_session_restarted, \* chrome.storage.local flag of the same name
    loads,                 \* startTimer calls inside loadFromStorage, in call order
    saveQueue,             \* _saveQueue: the saves not yet completed, in call order
    \* ---- observation of the timer (history)
    lastElapsed,           \* the getElapsedActiveTime call made in the last step, if any
    sessionStart,          \* when startTime was last set to the clock, the document
                           \* being visible; else 0
    hiddenTotal,           \* ticks the document was hidden since sessionStart
    hideEventAt,           \* when the event that hid the document arrived, the session
                           \* being active then and hidden, not restarted, since; else 0
    \* ---- website-auth.js (the content script on the LeetFeedback website)
    firebase_user,         \* localStorage item of the same name: absent, valid or not JSON
    authRequests,          \* the extension's requests received so far, in arrival order
    \* ---- ExtensionAuth (part_002): the instance extensionAuth
    isAuthenticated, user, token,
    auth_user, auth_token, \* chrome.storage.local items of the same names
    auth_timestamp,        \* the item auth_timestamp is stored
    authOps,               \* the calls in flight: a login awaiting its request, or a
                           \* chrome.storage.local operation awaiting its result
    authCalls,             \* the number of calls made so far (history)
    \* ---- the interceptor (part_001), injected into the page
    xhrs                   \* the XMLHttpRequest objects opened so far, in order

cacheVars == <<SELECTED_LANGUAGE, PUBLIC_CODE, PROBLEM_SLUG>>
countVars == <<TRIES, attempts, runCounter, incorrectRunCounter>>
latchVars == <<hasAnalyzedMistakes, shouldAnalyzeWithGemini, latchCalls>>
aiVars == <<aiAnalysis, aiTags>>
pageVars == <<locationPath, currentPathname>>
cfgVars == <<gemini_api_key, github_push_enabled>>
storeVars == <<storage, tuf_code_data>>
histVars == <<failedRuns, awaitingRunResult, evCount, lastEvent>>

pipeVars == <<QUES, cacheVars, countVars, latchVars, aiVars, pageVars, cfgVars,
              storeVars, histVars, pendingSubmits, runs>>

clockVars == <<startTime, pausedTime, isTabHidden, tabHiddenAt>>
timerHist == <<sessionStart, hiddenTotal>>
timerState == <<timerLoaded, now, problemUrl, clockVars, overlay, docHidden,
                browser_session_restarted, loads, saveQueue, timerHist>>
timerVars == <<timerState, lastElapsed>>

websiteVars == <<firebase_user, authRequests>>
memoryVars == <<isAuthenticated, user, token>>
sessionStore == <<auth_user, auth_token, auth_timestamp>>
sessionVars == <<memoryVars, sessionStore, authOps, authCalls>>
authVars == <<websiteVars, sessionVars>>

peerVars == <<authVars, xhrs>>

vars == <<pipeVars, timerVars, peerVars, hideEventAt>>

(***************************************************************************)
(* Bounds of the model.                                                    *)
(***************************************************************************)
MaxRuns == 1
MaxEvents == 5
MaxTrackerEvents == 6
MaxTime == 6
MaxTimerEvents == 4
MaxNavTime == 3
MaxNavEvents == 2
MaxLiveEvents == 3
MaxOverlap == 2
MaxOverlapEvents == 3
MaxAuthRequests == 2
MaxSaveTime == 2
MaxSaveEvents == 3
MaxChangeEvents == 3
MaxInflightEvents == 4
MaxAuthCalls == 3
MaxXhrs == 2

(***************************************************************************)
(* Program constants.                                                      *)
(***************************************************************************)
MinCodeLength == 10
RunFailThreshold == 2
SubmitFailThreshold == 3
AuthTimeout == 3

NULL == "null"

\* No getElapsedActiveTime call was made in the last step.
NoCall == [called |-> FALSE, raw |-> 0, ret |-> 0, expected |-> 0, tracked |-> FALSE]

Paths == {"p1", "p2"}

\* The pages of the timer specifications: p3 is another page whose last path
\* segment is that of p1.
TimerPaths == Paths \cup {"p3"}

\* getProblemSlugFromUrl (takeuforward.js 337-341): the last path segment.
SlugOf(path) == IF path = "p2" THEN "s2" ELSE "s1"
Slugs == {SlugOf(path) : path \in Paths}

\* Keys of the problem_data_<key> records: the pipeline keys a record by the
\* page URL (301, 363), the timer by the slug (problem-timer.js 240, 277).
Keys == Paths \cup Slugs

\* A stored problem_data record, with the fields the tracker, the pipeline
\* and the timer compute; name, platform, difficulty, topics, language, link
\* and the run counters are copied from their inputs and left out.  A field
\* that is absent from the stored object is read with the default every
\* reader of it substitutes (existingData.solved || {value:false,...},
\* x || 0, x || null).
EmptyRecord ==
    [solved |-> [value |-> FALSE, tries |-> 0],
     aiAnalysis |-> NULL, aiTags |-> {},
     shouldAnalyzeWithGemini |-> FALSE,
     problemStartTime |-> 0, pausedTime |-> 0]

\* A code is modelled by its length.
NoCodeData == [present |-> FALSE, SELECTED_LANGUAGE |-> "", PUBLIC_CODE |-> 0, PROBLEM_SLUG |-> ""]

Min(a, b) == IF a < b THEN a ELSE b

\* The sequence q without its element i.
Remove(q, i) == SubSeq(q, 1, i - 1) \o SubSeq(q, i + 1, Len(q))

(***************************************************************************)
(* website-auth.js: the content script on the LeetFeedback website.  The   *)
(* extension sends it a request over chrome.runtime messaging; the script  *)
(* asks the page with window.postMessage and answers the extension through *)
(* sendResponse.  Time is counted in seconds while a timeout is pending.   *)
(***************************************************************************)
RequestTypes == {"AUTH_STATUS_REQUEST", "SIGN_OUT_REQUEST"}

\* The response type a request's message handler accepts (102, 151).
ResponseTypeOf(type) ==
    IF type = "AUTH_STATUS_REQUEST" THEN "AUTH_STATUS_RESPONSE" ELSE "SIGN_OUT_RESPONSE"

\* What the extension received for a request: ok is isAuthenticated of an
\* auth-status response and success of a sign-out response.
NoAnswer == [sent |-> FALSE, ok |-> FALSE, error |-> ""]
Answer(ok, error) == [sent |-> TRUE, ok |-> ok, error |-> error]

\* A request whose handler has returned: listening, its message handler is
\* registered on the window; timer, its setTimeout callback is pending and
\* has waited for so many seconds; calls counts the sendResponse calls.
NewRequest(type) ==
    [type |-> type, listening |-> FALSE, timer |-> FALSE, waited |-> 0,
     calls |-> 0, answer |-> NoAnswer]

\* sendResponse(...) of chrome.runtime.onMessage (52): the channel carries
\* the value of the first call and is closed by it; a later call on the same
\* channel delivers nothing.
SendResponse(q, ans) ==
    [q EXCEPT !.calls = @ + 1,
              !.answer = IF q.calls = 0 THEN ans ELSE @]

\* postMessage, addEventListener and setTimeout of a handler (93-125, 142-170).
AskWebsite(type) ==
    [NewRequest(type) EXCEPT !.listening = TRUE, !.timer = TRUE]

\* handleAuthStatusRequest (71-136), up to its return: a cached user that
\* parses answers at once (76-86); one that does not parse is skipped (87-89);
\* an exception is answered by the catch (127-135).
HandleAuthStatusRequest ==
    /\ Len(authRequests) < MaxAuthRequests
    /\ authRequests' = Append(authRequests,
          CASE firebase_user = "valid" ->
                   SendResponse(NewRequest("AUTH_STATUS_REQUEST"), Answer(TRUE, ""))
            [] firebase_user = "blocked" ->
                   SendResponse(NewRequest("AUTH_STATUS_REQUEST"), Answer(FALSE, "message"))
            [] OTHER -> AskWebsite("AUTH_STATUS_REQUEST"))
    /\ UNCHANGED firebase_user

\* handleSignOutRequest (139-180), up to its return.
HandleSignOutRequest_noTimeout ==
    /\ Len(authRequests) < MaxAuthRequests
    /\ authRequests' = Append(authRequests,
          [NewRequest("SIGN_OUT_REQUEST") EXCEPT !.listening = TRUE])
    /\ UNCHANGED firebase_user

HandleSignOutRequest ==
    /\ Len(authRequests) < MaxAuthRequests
    /\ authRequests' = Append(authRequests, AskWebsite("SIGN_OUT_REQUEST"))
    /\ UNCHANGED firebase_user

\* authResponseHandler (99-111) and signOutHandler (148-158) on one message
\* event of the window: a same-origin message of the given response type whose
\* source is not the extension.  The event is dispatched to every registered
\* handler; a handler of the other type, and any handler on a message of
\* another origin, type or source, does nothing.
WebsiteResponse(type, ok) ==
    /\ \E i \in 1..Len(authRequests) :
          authRequests[i].listening /\ ResponseTypeOf(authRequests[i].type) = type
    /\ authRequests' =
          [i \in 1..Len(authRequests) |->
              IF authRequests[i].listening /\ ResponseTypeOf(authRequests[i].type) = type
              THEN SendResponse([authRequests[i] EXCEPT !.listening = FALSE], Answer(ok, ""))
              ELSE authRequests[i]]
    /\ UNCHANGED firebase_user

\* One second passes; a timeout that is due fires first.
AuthTick ==
    /\ \E i \in 1..Len(authRequests) : authRequests[i].timer
    /\ \A i \in 1..Len(authRequests) :
          authRequests[i].timer => authRequests[i].waited < AuthTimeout
    /\ authRequests' =
          [i \in 1..Len(authRequests) |->
              IF authRequests[i].timer
              THEN [authRequests[i] EXCEPT !.waited = @ + 1]
              ELSE authRequests[i]]
    /\ UNCHANGED firebase_user

\* The setTimeout callback (116-125, 163-170); timeouts fire in the order in
\* which they were set.
AuthTimeoutFires(i) ==
    /\ authRequests[i].timer
    /\ authRequests[i].waited = AuthTimeout
    /\ \A j \in 1..(i - 1) : ~authRequests[j].timer
    /\ authRequests' =
          [authRequests EXCEPT
              ![i] = SendResponse([@ EXCEPT !.listening = FALSE, !.timer = FALSE],
                                  Answer(FALSE, "Timeout"))]
    /\ UNCHANGED firebase_user

(***************************************************************************)
(* The interceptor (part_001): XMLHttpRequest.prototype.open and send are  *)
(* replaced by wrappers.  The logging (17-23) writes to the console only   *)
(* and is left out.                                                        *)
(***************************************************************************)
\* The endpoints the wrappers look for in the URL, and any other URL.
Endpoints == {"judge/submit", "judge/run", "judge/check-submit", "other"}

Methods == {"POST", "post", "get"}

\* this.method.toLowerCase() (41, 64)
ToLowerCase(method) == IF method = "POST" THEN "post" ELSE method

\* The argument of send: the text of a JSON object, a text that is not JSON,
\* or null (send() of a request without a body).
Bodies == {"object", "text", "null"}

\* JSON.parse(body) followed by the reads of payload.language, .usercode and
\* .problem_id (46-57, 69-78): a text that is not JSON makes JSON.parse throw;
\* null parses to null, and the read of a property of null throws.
ParseThrows(body) == body # "object"

\* The message type posted for a request that is intercepted (39-42, 62-65).
InterceptedAs(url, method) ==
    IF url = "judge/submit" /\ ToLowerCase(method) = "post" THEN "CODE_SUBMIT"
    ELSE IF url = "judge/run" /\ ToLowerCase(method) = "post" THEN "CODE_RUN"
    ELSE "none"

\* XHR.open (29-33): method and url are kept on the object.
XhrOpen(method, url) ==
    /\ Len(xhrs) < MaxXhrs
    /\ xhrs' = Append(xhrs, [method |-> method, url |-> url, pc |-> "opened",
                             body |-> "none", posted |-> "none", listening |-> FALSE,
                             sent |-> 0, passed |-> "none"])

\* The catch blocks of send (59-61, 80-82): catch (error) { error(...) }.  The
\* parameter of the catch hides the function error of line 21, so the call
\* applies the caught exception and throws a TypeError, which leaves send.
AfterCatch(x) == [x EXCEPT !.pc = "threw"]

\* XHR.send (35-157) on the request i with the argument body.
XhrSend(i, body) ==
    /\ xhrs[i].pc = "opened"
    /\ xhrs' = [xhrs EXCEPT ![i] =
          LET x == [@ EXCEPT !.body = body]
              type == InterceptedAs(x.url, x.method)
          IN IF type # "none" /\ ParseThrows(body)
             THEN AfterCatch(x)
             ELSE [x EXCEPT !.pc = "sent", !.posted = type, !.listening = TRUE,
                            !.sent = @ + 1, !.passed = body]]

\* No request was opened.
XhrIdle == xhrs = <<>>

(***************************************************************************)
(* ExtensionAuth (part_002): the session of the extension.  A user is a    *)
(* username; a token is known by the user it was issued to and by the      *)
(* login that obtained it.  chrome.storage.local applies its operations in *)
(* the order of the calls.                                                 *)
(***************************************************************************)
Users == {"alice", "bob"}

\* token || null (211, 260)
NoToken == [user |-> NULL, login |-> 0]

\* What a login request returns: a response with a token, a response without
\* one, or an error (network failure or a status that is not ok, 152-175).
LoginResults == {"token", "notoken", "throw"}

StorageStages == {"get", "set", "remove"}

\* The operation of authOps[i] is the oldest outstanding storage operation.
OldestStorageOp(i) ==
    /\ authOps[i].pc \in StorageStages
    /\ \A j \in 1..(i - 1) : authOps[j].pc \notin StorageStages

NewOp(kind, pc, u, t) == [kind |-> kind, pc |-> pc, user |-> u, token |-> t]

\* storeSession (226-245), up to the await: the payload holds auth_timestamp,
\* auth_user if there is a user and auth_token if there is a token.
StoreSession(ops, kind, u, t) == Append(ops, NewOp(kind, "set", u, t))

\* Variant of UpdateAuthStatus that keeps the user and the token when the
\* session is not authenticated (258-260).
UpdateAuthStatus_keepsUser(ops, kind, a, u, t, persist) ==
    /\ isAuthenticated' = a
    /\ user' = u
    /\ token' = t
    /\ authOps' = IF ~persist THEN ops
                  ELSE IF a /\ u # NULL
                       THEN StoreSession(ops, kind, u, t)
                       ELSE Append(ops, NewOp(kind, "remove", NULL, NoToken))

\* updateAuthStatus (257-273), up to its await: the three fields are assigned
\* and, unless persist is false, storeSession or clearSession is called.
UpdateAuthStatus(ops, kind, a, u, t, persist) ==
    /\ isAuthenticated' = a
    /\ user' = IF a THEN u ELSE NULL
    /\ token' = IF a THEN t ELSE NoToken
    /\ authOps' = IF ~persist THEN ops
                  ELSE IF a /\ u # NULL
                       THEN StoreSession(ops, kind, u, t)
                       ELSE Append(ops, NewOp(kind, "remove", NULL, NoToken))

\* login(credentials) with a username and a password (183-196), up to the
\* await of the request.
Login(u) ==
    /\ authCalls' = authCalls + 1
    /\ authOps' = Append(authOps, NewOp("login", "request", u,
                                        [user |-> u, login |-> authCalls + 1]))
    /\ UNCHANGED <<memoryVars, sessionStore>>

\* The request of a login has returned (193-214): a thrown error rejects the
\* login; else the token and the user are picked and updateAuthStatus(true,
\* user, token || null) is called.
LoginReturns(i, res) ==
    /\ authOps[i].pc = "request"
    /\ IF res = "throw"
       THEN /\ authOps' = Remove(authOps, i)
            /\ UNCHANGED memoryVars
       ELSE UpdateAuthStatus(Remove(authOps, i), "login", TRUE, authOps[i].user,
                             IF res = "token" THEN authOps[i].token ELSE NoToken, TRUE)
    /\ UNCHANGED <<sessionStore, authCalls>>

\* signOut (217-219), up to the await of clearSession.
SignOut ==
    /\ authCalls' = authCalls + 1
    /\ UpdateAuthStatus(authOps, "signOut", FALSE, NULL, NoToken, TRUE)
    /\ UNCHANGED sessionStore

\* syncFromStorage (50-60), up to the await of the get.
SyncFromStorage ==
    /\ authCalls' = authCalls + 1
    /\ authOps' = Append(authOps, NewOp("sync", "get", NULL, NoToken))
    /\ UNCHANGED <<memoryVars, sessionStore>>

\* A call of updateAuthStatus by another script of the extension.
UpdateAuthStatusCalled(a, u, t, persist) ==
    /\ authCalls' = authCalls + 1
    /\ UpdateAuthStatus(authOps, "update", a, u, t, persist)
    /\ UNCHANGED sessionStore

\* clearSession (247-255): the three items are removed.
ClearSession ==
    /\ auth_user' = NULL
    /\ auth_token' = NoToken
    /\ auth_timestamp' = FALSE

\* chrome.storage.local.set(payload) of storeSession has been applied (244):
\* the items of the payload are written, the others stay.
SessionStored(i) ==
    /\ OldestStorageOp(i)
    /\ authOps[i].pc = "set"
    /\ auth_timestamp' = TRUE
    /\ auth_user' = IF authOps[i].user # NULL THEN authOps[i].user ELSE auth_user
    /\ auth_token' = IF authOps[i].token # NoToken THEN authOps[i].token ELSE auth_token
    /\ authOps' = Remove(authOps, i)
    /\ UNCHANGED <<memoryVars, authCalls>>

\* chrome.storage.local.remove of clearSession has been applied (250-254).
SessionCleared(i) ==
    /\ OldestStorageOp(i)
    /\ authOps[i].pc = "remove"
    /\ ClearSession
    /\ authOps' = Remove(authOps, i)
    /\ UNCHANGED <<memoryVars, authCalls>>

\* The get of syncFromStorage has resolved (55-73): with auth_user and
\* auth_token both stored the session is taken from them, else it is cleared;
\* nothing is persisted.
SessionRead(i) ==
    /\ OldestStorageOp(i)
    /\ authOps[i].pc = "get"
    /\ IF auth_user # NULL /\ auth_token # NoToken
       THEN UpdateAuthStatus(Remove(authOps, i), "sync", TRUE, auth_user, auth_token, FALSE)
       ELSE UpdateAuthStatus(Remove(authOps, i), "sync", FALSE, NULL, NoToken, FALSE)
    /\ UNCHANGED <<sessionStore, authCalls>>

\* The instance after its construction (32-36) on a page that does not load
\* the script's init: nothing stored, nothing in flight.
SessionIdle ==
    /\ isAuthenticated = FALSE /\ user = NULL /\ token = NoToken
    /\ auth_user = NULL /\ auth_token = NoToken /\ auth_timestamp = FALSE
    /\ authOps = <<>>
    /\ authCalls = 0

\* No request was received.
AuthIdle ==
    /\ firebase_user = "absent"
    /\ authRequests = <<>>
    /\ SessionIdle

(***************************************************************************)
(* Initial state: the constructor (takeuforward.js 12-37) and empty stores.*)
(* The two chrome.storage.sync settings are fixed for a behaviour.         *)
(***************************************************************************)
PipeInit ==
    /\ QUES = "" /\ SELECTED_LANGUAGE = "" /\ PUBLIC_CODE = 0 /\ PROBLEM_SLUG = ""
    /\ TRIES = 0
    /\ currentPathname = "p1" /\ locationPath = "p1"
    /\ attempts = <<>> /\ runCounter = 0 /\ incorrectRunCounter = 0
    /\ hasAnalyzedMistakes = FALSE /\ shouldAnalyzeWithGemini = FALSE
    /\ aiAnalysis = NULL /\ aiTags = {}
    /\ storage = [k \in Keys |-> EmptyRecord]
    /\ tuf_code_data = NoCodeData
    /\ gemini_api_key \in BOOLEAN
    /\ github_push_enabled \in BOOLEAN
    /\ pendingSubmits = <<>>
    /\ runs = <<>>
    /\ latchCalls = 0 /\ failedRuns = 0 /\ awaitingRunResult = FALSE /\ evCount = 0
    /\ lastEvent = ""

(***************************************************************************)
(* AttemptTracker: the message listener (takeuforward.js 114-213).         *)
(***************************************************************************)

\* handleThreeIncorrectRuns (426-431): no await in its body, so it runs to
\* the end inside the calling handler.
handleThreeIncorrectRuns ==
    /\ hasAnalyzedMistakes' = TRUE
    /\ shouldAnalyzeWithGemini' = TRUE
    /\ latchCalls' = Min(latchCalls + 1, 2)

SubmitPayloads ==
    { [language |-> "cpp", usercode |-> 11, problem_id |-> "pid"],
      [language |-> "cpp", usercode |-> 9, problem_id |-> "pid"] }

\* CODE_SUBMIT, up to the await of chrome.storage.local.set (117-133).
CodeSubmit(p) ==
    /\ SELECTED_LANGUAGE' = p.language
    /\ PUBLIC_CODE' = p.usercode
    /\ PROBLEM_SLUG' = p.problem_id
    /\ pendingSubmits' = Append(pendingSubmits,
           [present |-> TRUE, SELECTED_LANGUAGE |-> p.language,
            PUBLIC_CODE |-> p.usercode, PROBLEM_SLUG |-> p.problem_id])
    /\ UNCHANGED <<QUES, countVars, latchVars, aiVars, pageVars, cfgVars,
                   storeVars, runs>>

\* CODE_SUBMIT, after the set: the stored copy is written and TRIES++ (135-142).
CodeSubmitStored ==
    /\ pendingSubmits # <<>>
    /\ tuf_code_data' = Head(pendingSubmits)
    /\ pendingSubmits' = Tail(pendingSubmits)
    /\ TRIES' = TRIES + 1
    /\ UNCHANGED <<QUES, cacheVars, attempts, runCounter, incorrectRunCounter,
                   latchVars, aiVars, pageVars, cfgVars, storage, runs>>

RunPayloads ==
    { [usercode |-> 11, language |-> "cpp"],
      [usercode |-> 10, language |-> "cpp"],
      [usercode |-> 9, language |-> "cpp"],
      [usercode |-> 0, language |-> "cpp"] }

\* runData.usercode || PUBLIC_CODE, runData.language || SELECTED_LANGUAGE (152-153)
OrCode(a, b) == IF a # 0 THEN a ELSE b
OrStr(a, b) == IF a # "" THEN a ELSE b

\* Variant of IsViable that accepts a code of the minimum length.
IsViable_atLeast(code) == code >= MinCodeLength

\* code && code.length > 10 (155)
IsViable(code) == code > MinCodeLength

\* CODE_RUN (146-167)
CodeRun(p) ==
    LET code == OrCode(p.usercode, PUBLIC_CODE)
        language == OrStr(p.language, SELECTED_LANGUAGE)
    IN
    /\ runCounter' = runCounter + 1
    /\ attempts' = IF IsViable(code)
                   THEN Append(attempts,
                          [code |-> code, language |-> language,
                           runNumber |-> runCounter + 1, successful |-> NULL])
                   ELSE attempts
    /\ UNCHANGED <<QUES, cacheVars, TRIES, incorrectRunCounter, latchVars, aiVars,
                   pageVars, cfgVars, storeVars, pendingSubmits, runs>>

RunResults ==
    { [success |-> TRUE, status |-> "Accepted"],
      [success |-> FALSE, status |-> "Accepted"],
      [success |-> FALSE, status |-> "Wrong Answer"] }

\* runResult.success === true || runResult.status === 'Accepted' (177)
RunPassed(res) == res.success = TRUE \/ res.status = "Accepted"

\* Variant of Matched without the test of successful === null (176).
Matched_anyLast(atts) == Len(atts) > 0

\* lastAttempt && lastAttempt.successful === null (175-176).  attempts holds
\* run attempts only, so the last run attempt is its last element.
Matched(atts) == Len(atts) > 0 /\ atts[Len(atts)].successful = NULL

\* Variant of RunLatchDue without the test of hasAnalyzedMistakes (187).
RunLatchDue_refires(count, analyzed) == count >= RunFailThreshold

\* incorrectRunCounter >= 2 && !hasAnalyzedMistakes (187)
RunLatchDue(count, analyzed) == count >= RunFailThreshold /\ ~analyzed

\* RUN_RESPONSE (170-192)
RunResponse(res) ==
    LET n == Len(attempts) IN
    /\ IF Matched(attempts)
       THEN IF RunPassed(res)
            THEN /\ attempts' = [attempts EXCEPT ![n].successful = "true"]
                 /\ UNCHANGED <<incorrectRunCounter, latchVars>>
            ELSE /\ attempts' = [attempts EXCEPT ![n].successful = "false"]
                 /\ incorrectRunCounter' = incorrectRunCounter + 1
                 /\ IF RunLatchDue(incorrectRunCounter + 1, hasAnalyzedMistakes)
                    THEN handleThreeIncorrectRuns
                    ELSE UNCHANGED latchVars
       ELSE UNCHANGED <<attempts, incorrectRunCounter, latchVars>>
    /\ UNCHANGED <<QUES, cacheVars, TRIES, runCounter, aiVars, pageVars, cfgVars,
                   storeVars, pendingSubmits, runs>>

\* incorrectRunCounter >= 3 && !hasAnalyzedMistakes (208)
SubmitLatchDue(count, analyzed) == count >= SubmitFailThreshold /\ ~analyzed

\* SUBMISSION_RESPONSE with success !== true (202-211)
SubmissionFailed ==
    /\ incorrectRunCounter' = incorrectRunCounter + 1
    /\ IF SubmitLatchDue(incorrectRunCounter + 1, hasAnalyzedMistakes)
       THEN handleThreeIncorrectRuns
       ELSE UNCHANGED latchVars
    /\ UNCHANGED <<QUES, cacheVars, TRIES, attempts, runCounter, aiVars, pageVars,
                   cfgVars, storeVars, pendingSubmits, runs>>

(***************************************************************************)
(* ProblemTimer (problem-timer.js).  Times are clock ticks; null and       *)
(* undefined times are 0 and the clock starts at 1.  The overlay setting   *)
(* timer_overlay_enabled has its default, true, and init() (45-86) has     *)
(* completed, so the visibility listener is registered.                    *)
(***************************************************************************)

\* The variables of the content script and its stores that the timer leaves
\* alone; storage is written by the timer's saves.
scriptVars == <<QUES, cacheVars, countVars, latchVars, aiVars, pageVars, cfgVars,
                tuf_code_data, pendingSubmits, runs>>

Clock ==
    [startTime |-> startTime, pausedTime |-> pausedTime,
     isTabHidden |-> isTabHidden, tabHiddenAt |-> tabHiddenAt]

SetClock(c) ==
    /\ startTime' = c.startTime
    /\ pausedTime' = c.pausedTime
    /\ isTabHidden' = c.isTabHidden
    /\ tabHiddenAt' = c.tabHiddenAt

\* now - startTime - pausedTime, less the current hidden duration (171-178)
RawElapsed(c) ==
    now - c.startTime - c.pausedTime
        - (IF c.isTabHidden /\ c.tabHiddenAt # 0 THEN now - c.tabHiddenAt ELSE 0)

\* Variant of GetElapsedActiveTime without the negative branch (181-189).
GetElapsedActiveTime_unclamped(c) ==
    IF c.startTime = 0
    THEN [clock |-> c, raw |-> 0, ret |-> 0, corrected |-> FALSE]
    ELSE [clock |-> c, raw |-> RawElapsed(c), ret |-> RawElapsed(c), corrected |-> FALSE]

\* getElapsedActiveTime (168-192) on the clock c: the clock afterwards, the
\* raw value and the value returned.
GetElapsedActiveTime(c) ==
    IF c.startTime = 0
    THEN [clock |-> c, raw |-> 0, ret |-> 0, corrected |-> FALSE]
    ELSE IF RawElapsed(c) < 0
    THEN [clock |-> [c EXCEPT !.startTime = now, !.pausedTime = 0, !.tabHiddenAt = 0],
          raw |-> RawElapsed(c), ret |-> 0, corrected |-> TRUE]
    ELSE [clock |-> c, raw |-> RawElapsed(c), ret |-> RawElapsed(c), corrected |-> FALSE]

\* The session start observed when startTime is set to the clock.
SessionBegins == IF docHidden THEN 0 ELSE now

\* A call of getElapsedActiveTime on the clock c, the session having started
\* at ss with ht hidden ticks since: the clock and the history afterwards.
Called(c, ss, ht) ==
    LET e == GetElapsedActiveTime(c) IN
    /\ SetClock(e.clock)
    /\ lastElapsed' = [called |-> TRUE, raw |-> e.raw, ret |-> e.ret,
                       expected |-> now - ss - ht, tracked |-> ss # 0]
    /\ sessionStart' = IF e.corrected THEN SessionBegins ELSE ss
    /\ hiddenTotal' = IF e.corrected THEN 0 ELSE ht

NotCalled(c, ss, ht) ==
    /\ SetClock(c)
    /\ lastElapsed' = NoCall
    /\ sessionStart' = ss
    /\ hiddenTotal' = ht

\* updateDisplay (547-553) with the overlay shown or not.
UpdateDisplayOn(shown, c, ss, ht) ==
    IF shown /\ c.startTime # 0 THEN Called(c, ss, ht) ELSE NotCalled(c, ss, ht)

\* showOverlay (301-306) and startDisplayUpdate (535-545): the first display
\* update runs at once.
ShowOverlay(c, ss, ht) ==
    /\ overlay' = TRUE
    /\ IF overlay THEN NotCalled(c, ss, ht) ELSE UpdateDisplayOn(TRUE, c, ss, ht)

\* Variant of ResetClock that leaves startTime as it is.
ResetClock_keepsStart ==
    [startTime |-> startTime, pausedTime |-> 0, isTabHidden |-> docHidden, tabHiddenAt |-> 0]

\* reset (134-140) and the assignments of resetTimer (196-199).
ResetClock ==
    [startTime |-> now, pausedTime |-> 0, isTabHidden |-> docHidden, tabHiddenAt |-> 0]

\* An operation chained on _saveQueue (274): nothing of it has run.  The field
\* requestedFor is history: the problemUrl at the call of saveToStorage, which
\* the operation itself does not keep.
NewSave(waiter, url) ==
    [waiter |-> waiter, stage |-> "queued", key |-> "", requestedFor |-> url,
     data |-> EmptyRecord]

\* The queued operation starts (274-278): the key is read and the record is
\* requested.
Started(op, url) == [op EXCEPT !.stage = "get", !.key = url]

\* Variant of Enqueue that starts the operation without chaining it on
\* _saveQueue.
Enqueue_unchained(q, waiter, url) ==
    Append(q, Started(NewSave(waiter, url), url))

\* saveToStorage (271-297), up to await this._saveQueue: on an empty queue
\* the operation starts in the same task.
Enqueue(q, waiter, url) ==
    IF q = <<>> THEN <<Started(NewSave(waiter, url), url)>>
    ELSE Append(q, NewSave(waiter, url))

\* One clock tick.
Tick ==
    /\ now < MaxTime
    /\ now' = now + 1
    /\ hiddenTotal' = IF docHidden /\ sessionStart # 0 THEN hiddenTotal + 1 ELSE hiddenTotal
    /\ lastElapsed' = NoCall
    /\ UNCHANGED <<timerLoaded, problemUrl, clockVars, overlay, docHidden,
                   browser_session_restarted, loads, saveQueue, sessionStart,
                   storage, scriptVars>>

\* visibilitychange with document.hidden (145-149)
Hide ==
    /\ ~docHidden
    /\ docHidden' = TRUE
    /\ isTabHidden' = TRUE
    /\ tabHiddenAt' = now
    /\ lastElapsed' = NoCall
    /\ UNCHANGED <<timerLoaded, now, problemUrl, startTime, pausedTime, overlay,
                   browser_session_restarted, loads, saveQueue, timerHist,
                   storage, scriptVars>>

\* visibilitychange with the document visible (150-163), up to the await
\* of saveToStorage; with no problemUrl saveToStorage returns at once.
Show ==
    /\ docHidden
    /\ docHidden' = FALSE
    /\ isTabHidden' = FALSE
    /\ IF tabHiddenAt # 0 /\ startTime # 0
       THEN /\ pausedTime' = pausedTime + (now - tabHiddenAt)
            /\ IF problemUrl = NULL
               THEN tabHiddenAt' = 0 /\ UNCHANGED saveQueue
               ELSE /\ saveQueue' = Enqueue(saveQueue, "show", problemUrl)
                    /\ UNCHANGED tabHiddenAt
       ELSE /\ tabHiddenAt' = 0
            /\ UNCHANGED <<pausedTime, saveQueue>>
    /\ lastElapsed' = NoCall
    /\ UNCHANGED <<timerLoaded, now, problemUrl, startTime, overlay,
                   browser_session_restarted, loads, timerHist, storage, scriptVars>>

\* The reset button of the overlay (429): resetTimer up to its await (195-202).
ResetClick ==
    /\ overlay
    /\ SetClock(ResetClock)
    /\ sessionStart' = SessionBegins /\ hiddenTotal' = 0
    /\ lastElapsed' = NoCall
    /\ saveQueue' = Enqueue(saveQueue, "reset", problemUrl)
    /\ UNCHANGED <<timerLoaded, now, problemUrl, overlay, docHidden,
                   browser_session_restarted, loads, storage, scriptVars>>

\* The display interval fires (539-541).
UpdateDisplay ==
    /\ overlay /\ startTime # 0
    /\ Called(Clock, sessionStart, hiddenTotal)
    /\ UNCHANGED <<timerLoaded, now, problemUrl, overlay, docHidden,
                   browser_session_restarted, loads, saveQueue, storage, scriptVars>>

\* Variant of StartTimer without the same-problem return (98-102).
StartTimer_reloads(url, c, ss, ht) ==
    /\ problemUrl' = url
    /\ loads' = Append(loads, [pc |-> "session", key |-> ""])
    /\ NotCalled(c, ss, ht)
    /\ UNCHANGED overlay

\* startTimer(url) on the clock c, up to the first await of loadFromStorage
\* (88-107, 220-229).
StartTimer(url, c, ss, ht) ==
    IF problemUrl = url /\ c.startTime # 0
    THEN /\ ShowOverlay(c, ss, ht)
         /\ UNCHANGED <<problemUrl, loads>>
    ELSE /\ problemUrl' = url
         /\ loads' = Append(loads, [pc |-> "session", key |-> ""])
         /\ NotCalled(c, ss, ht)
         /\ UNCHANGED overlay

\* The timer calls of observeUrlChanges (takeuforward.js 96-100): reset(),
\* then startTimer(slug).
TimerOnUrlChange(slug) ==
    /\ StartTimer(slug, ResetClock, SessionBegins, 0)
    /\ UNCHANGED <<timerLoaded, now, docHidden, browser_session_restarted, saveQueue>>

\* loadFromStorage: the session flags have been read (225-240).
LoadSession(i) ==
    /\ loads[i].pc = "session"
    /\ loads' = [loads EXCEPT ![i] =
                    IF browser_session_restarted
                    THEN [@ EXCEPT !.pc = "remove"]
                    ELSE [@ EXCEPT !.pc = "record", !.key = problemUrl]]
    /\ lastElapsed' = NoCall
    /\ UNCHANGED <<timerLoaded, now, problemUrl, clockVars, overlay, docHidden,
                   browser_session_restarted, saveQueue, timerHist, storage, scriptVars>>

\* loadFromStorage: the record has been read (241-248).
LoadRecord(i) ==
    /\ loads[i].pc = "record"
    /\ startTime' = storage[loads[i].key].problemStartTime
    /\ pausedTime' = storage[loads[i].key].pausedTime
    /\ sessionStart' = 0 /\ hiddenTotal' = 0
    /\ loads' = [loads EXCEPT ![i].pc = "position"]
    /\ lastElapsed' = NoCall
    /\ UNCHANGED <<timerLoaded, now, problemUrl, isTabHidden, tabHiddenAt, overlay,
                   docHidden, browser_session_restarted, saveQueue,
                   storage, scriptVars>>

\* startTimer after loadFromStorage (109-126), up to await this._saveQueue.
StartContinue(i) ==
    /\ IF startTime = 0
       THEN NotCalled([Clock EXCEPT !.startTime = now, !.pausedTime = 0], SessionBegins, 0)
       ELSE Called(Clock, sessionStart, hiddenTotal)
    /\ loads' = Remove(loads, i)
    /\ saveQueue' = Enqueue(saveQueue, "start", problemUrl)

\* loadFromStorage: the restart flag has been removed and the load returns
\* without reading the record (231-236).
LoadRemoved(i) ==
    /\ loads[i].pc = "remove"
    /\ browser_session_restarted' = FALSE
    /\ StartContinue(i)
    /\ UNCHANGED <<timerLoaded, now, problemUrl, overlay, docHidden, storage, scriptVars>>

\* loadFromStorage: the overlay position has been read (250-256).
LoadPosition(i) ==
    /\ loads[i].pc = "position"
    /\ StartContinue(i)
    /\ UNCHANGED <<timerLoaded, now, problemUrl, overlay, docHidden,
                   browser_session_restarted, storage, scriptVars>>

\* Variant of SaveGot that writes a record of the timer fields alone.
SaveGot_replaces(i) ==
    /\ saveQueue[i].stage = "get"
    /\ saveQueue' = [saveQueue EXCEPT
                        ![i].stage = "set",
                        ![i].data = [EmptyRecord EXCEPT
                                        !.problemStartTime = startTime,
                                        !.pausedTime = pausedTime]]
    /\ lastElapsed' = NoCall
    /\ UNCHANGED <<timerLoaded, now, problemUrl, clockVars, overlay, docHidden,
                   browser_session_restarted, loads, timerHist, storage, scriptVars>>

\* A started save: the record has been read, the timer fields are set from
\* the clock and the record is written (278-284).
SaveGot(i) ==
    /\ saveQueue[i].stage = "get"
    /\ saveQueue' = [saveQueue EXCEPT
                        ![i].stage = "set",
                        ![i].data = [storage[saveQueue[i].key] EXCEPT
                                        !.problemStartTime = startTime,
                                        !.pausedTime = pausedTime]]
    /\ lastElapsed' = NoCall
    /\ UNCHANGED <<timerLoaded, now, problemUrl, clockVars, overlay, docHidden,
                   browser_session_restarted, loads, timerHist, storage, scriptVars>>

\* The record has been written; the overlay position is written (284-289).
SaveSet(i) ==
    /\ saveQueue[i].stage = "set"
    /\ storage' = [storage EXCEPT ![saveQueue[i].key] = saveQueue[i].data]
    /\ saveQueue' = [saveQueue EXCEPT ![i].stage = "pos", ![i].data = EmptyRecord]
    /\ lastElapsed' = NoCall
    /\ UNCHANGED <<timerLoaded, now, problemUrl, clockVars, overlay, docHidden,
                   browser_session_restarted, loads, timerHist, scriptVars>>

\* The code that follows await this.saveToStorage() in the caller: the
\* visibility handler (162), resetTimer (205) and startTimer (129-131).
AfterSave(waiter) ==
    IF waiter = "show"
    THEN /\ tabHiddenAt' = 0
         /\ lastElapsed' = NoCall
         /\ UNCHANGED <<startTime, pausedTime, isTabHidden, timerHist, overlay>>
    ELSE IF waiter = "reset"
    THEN UpdateDisplayOn(overlay, Clock, sessionStart, hiddenTotal) /\ UNCHANGED overlay
    ELSE ShowOverlay(Clock, sessionStart, hiddenTotal)

\* A save has completed (285-296): its caller goes on and the operation
\* chained on it by _saveQueue.then, the next of the queue, starts.
SaveDone(i) ==
    /\ saveQueue[i].stage = "pos"
    /\ AfterSave(saveQueue[i].waiter)
    /\ saveQueue' = [j \in 1..(Len(saveQueue) - 1) |->
                        IF j < i THEN saveQueue[j]
                        ELSE IF j = i /\ saveQueue[j + 1].stage = "queued"
                             THEN Started(saveQueue[j + 1], problemUrl)
                             ELSE saveQueue[j + 1]]
    /\ UNCHANGED <<timerLoaded, now, problemUrl, docHidden, browser_session_restarted,
                   loads, storage, scriptVars>>

\* Variant of SaveFailed in which the rejection is not caught: the chain stays
\* rejected at this operation.
SaveFailed_uncaught(i) ==
    /\ saveQueue[i].stage \in {"get", "set", "pos"}
    /\ saveQueue' = [saveQueue EXCEPT ![i].stage = "rejected"]
    /\ lastElapsed' = NoCall
    /\ UNCHANGED <<timerLoaded, now, problemUrl, clockVars, overlay, docHidden,
                   browser_session_restarted, loads, timerHist, storage, scriptVars>>

\* The storage call a started save is waiting for rejects: the catch logs
\* (290-292), the operation's promise resolves, its caller goes on and the
\* next operation of the queue starts.
SaveFailed(i) ==
    /\ saveQueue[i].stage \in {"get", "set", "pos"}
    /\ AfterSave(saveQueue[i].waiter)
    /\ saveQueue' = [j \in 1..(Len(saveQueue) - 1) |->
                        IF j < i THEN saveQueue[j]
                        ELSE IF j = i /\ saveQueue[j + 1].stage = "queued"
                             THEN Started(saveQueue[j + 1], problemUrl)
                             ELSE saveQueue[j + 1]]
    /\ UNCHANGED <<timerLoaded, now, problemUrl, docHidden, browser_session_restarted,
                   loads, storage, scriptVars>>

(***************************************************************************)
(* The page: navigation, URL polling and the question poll.                *)
(***************************************************************************)

\* The single-page application moves to another problem.
Navigate(p) ==
    /\ p # locationPath
    /\ locationPath' = p
    /\ UNCHANGED <<QUES, cacheVars, countVars, latchVars, aiVars, currentPathname,
                   cfgVars, storeVars, pendingSubmits, runs>>

\* Variant of UrlChanged that leaves aiAnalysis and aiTags as they are (92-93).
UrlChanged_keepsAnalysis ==
    /\ currentPathname # locationPath
    /\ currentPathname' = locationPath
    /\ TRIES' = 0
    /\ attempts' = <<>>
    /\ runCounter' = 0
    /\ incorrectRunCounter' = 0
    /\ hasAnalyzedMistakes' = FALSE
    /\ shouldAnalyzeWithGemini' = FALSE
    /\ latchCalls' = 0
    /\ IF timerLoaded
       THEN TimerOnUrlChange(SlugOf(locationPath))
       ELSE UNCHANGED timerVars
    /\ UNCHANGED <<QUES, cacheVars, aiVars, locationPath, cfgVars, storeVars,
                   pendingSubmits, runs>>

\* observeUrlChanges, the interval callback when the pathname differs (81-105).
UrlChanged ==
    /\ currentPathname # locationPath
    /\ currentPathname' = locationPath
    /\ TRIES' = 0
    /\ attempts' = <<>>
    /\ runCounter' = 0
    /\ incorrectRunCounter' = 0
    /\ hasAnalyzedMistakes' = FALSE
    /\ shouldAnalyzeWithGemini' = FALSE
    /\ aiAnalysis' = NULL
    /\ aiTags' = {}
    /\ latchCalls' = 0
    /\ IF timerLoaded
       THEN TimerOnUrlChange(SlugOf(locationPath))
       ELSE UNCHANGED timerVars
    /\ UNCHANGED <<QUES, cacheVars, locationPath, cfgVars, storeVars,
                   pendingSubmits, runs>>

\* What document.querySelector finds: "none" when the heading or the
\* paragraph is missing, else the heading's trimmed text.
DomTitles == {"none", "", "T"}

\* fetchQuestionDetails (253-274), the part that sets QUES.
FetchedTitle(d) == IF d = "none" THEN QUES ELSE d

\* pollForQuestionDetails / checkPageType / the timeout of observeUrlChanges.
FetchQuestionDetails(d) ==
    /\ QUES' = FetchedTitle(d)
    /\ UNCHANGED <<cacheVars, countVars, latchVars, aiVars, pageVars, cfgVars,
                   storeVars, pendingSubmits, runs>>

(***************************************************************************)
(* storeProblemData (360-424).                                             *)
(***************************************************************************)

\* Variant of SolvedData without the previousSolved branch (368-373).
SolvedData_recomputed(previousSolved, solved, tries) ==
    IF solved
    THEN [value |-> TRUE, tries |-> IF tries # 0 THEN tries ELSE 1]
    ELSE [value |-> FALSE, tries |-> tries]

\* solvedData (368-388); the date is left out.  TRIES || 1, TRIES || 0.
SolvedData(previousSolved, solved, tries) ==
    IF previousSolved.value
    THEN previousSolved
    ELSE IF solved
         THEN [value |-> TRUE, tries |-> IF tries # 0 THEN tries ELSE 1]
         ELSE [value |-> FALSE, tries |-> tries]

\* a || b || c on numbers
Or3(a, b, c) == IF a # 0 THEN a ELSE IF b # 0 THEN b ELSE c

\* problemData (393-414), computed when the get has resolved.
ProblemData(existingData, solved) ==
    [existingData EXCEPT
       !.solved = SolvedData(existingData.solved, solved, TRIES),
       !.problemStartTime = Or3(startTime, existingData.problemStartTime, now),
       !.pausedTime = Or3(pausedTime, existingData.pausedTime, 0),
       !.aiAnalysis = aiAnalysis,
       !.aiTags = aiTags,
       !.shouldAnalyzeWithGemini = shouldAnalyzeWithGemini]

(***************************************************************************)
(* The sync pipeline: handleSuccessfulSubmission (433-591).  A run is at   *)
(* pc X while the operation it awaits at X is outstanding.                 *)
(***************************************************************************)

NewRun ==
    [pc |-> "sleep", url |-> "", pending |-> EmptyRecord,
     backendCalls |-> 0, githubCalls |-> 0, analysisCalls |-> 0,
     analysisArg |-> <<>>, runsAtStart |-> 0,
     toast |-> "none", githubResult |-> "none", analysisResult |-> "none"]

Terminal == {"Reset", "AwaitingRetry", "Aborted"}

\* SUBMISSION_RESPONSE with success === true (199-201): the handler enters
\* handleSuccessfulSubmission and waits for DSAUtils.sleep(2000).
\* The field runsAtStart is history: the runCounter at the time of the result.
SubmissionSucceeded ==
    /\ runs' = Append(runs, [NewRun EXCEPT !.runsAtStart = runCounter])
    /\ UNCHANGED <<QUES, cacheVars, countVars, latchVars, aiVars, pageVars, cfgVars,
                   storeVars, pendingSubmits>>

\* Unchanged by every pipeline step.
pipeFrame == <<pageVars, cfgVars, pendingSubmits>>

\* The validation of extractProblemInfo (309-317) and of the caller (443-452).
Validated(title, code) == title # "" /\ code # 0 /\ ~(code < MinCodeLength)

\* Variant of AfterExtraction without the two early returns (443-452).
AfterExtraction_noreturn(r, title, code) ==
    runs' = [runs EXCEPT ![r] = [@ EXCEPT !.pc = "store1_get", !.url = locationPath]]

\* After a valid extraction storeProblemData is called and awaits
\* storage.get (365); problemInfo.url is the location at that time (301).
AfterExtraction(r, title, code) ==
    runs' = [runs EXCEPT ![r] =
               IF Validated(title, code)
               THEN [@ EXCEPT !.pc = "store1_get", !.url = locationPath]
               ELSE [@ EXCEPT !.pc = "Aborted"]]

\* !PUBLIC_CODE || !SELECTED_LANGUAGE || !PROBLEM_SLUG (282)
CacheIncomplete == PUBLIC_CODE = 0 \/ SELECTED_LANGUAGE = "" \/ PROBLEM_SLUG = ""

\* The sleep is over: extractProblemInfo up to its first await (276-284), or
\* to its end when the cached code data is complete.
Extract(r, d) ==
    /\ runs[r].pc = "sleep"
    /\ QUES' = FetchedTitle(d)
    /\ IF CacheIncomplete
       THEN runs' = [runs EXCEPT ![r].pc = "extract_get"]
       ELSE AfterExtraction(r, FetchedTitle(d), PUBLIC_CODE)
    /\ UNCHANGED <<cacheVars, countVars, latchVars, aiVars, storeVars, pipeFrame>>

\* storage.get(['tuf_code_data']) resolved (284-322); fresh: the stored copy
\* is less than 60 seconds old.
ExtractFromStorage(r, fresh) ==
    LET use == tuf_code_data.present /\ fresh
        language == IF use THEN OrStr(tuf_code_data.SELECTED_LANGUAGE, SELECTED_LANGUAGE)
                    ELSE SELECTED_LANGUAGE
        code == IF use THEN OrCode(tuf_code_data.PUBLIC_CODE, PUBLIC_CODE)
                ELSE PUBLIC_CODE
        slug == IF use THEN OrStr(tuf_code_data.PROBLEM_SLUG, PROBLEM_SLUG)
                ELSE PROBLEM_SLUG
    IN
    /\ runs[r].pc = "extract_get"
    /\ SELECTED_LANGUAGE' = language
    /\ PUBLIC_CODE' = code
    /\ PROBLEM_SLUG' = slug
    /\ AfterExtraction(r, QUES, code)
    /\ UNCHANGED <<QUES, countVars, latchVars, aiVars, storeVars, pipeFrame>>

\* Variant of StoreGet in which the caller does not await storeProblemData
\* (473, 496) and goes on while the write is outstanding.
StoreGet_unawaited(r) ==
    /\ runs[r].pc \in {"store1_get", "store2_get"}
    /\ runs' = [runs EXCEPT ![r] =
                  IF runs[r].pc = "store1_get"
                  THEN [@ EXCEPT !.pc = IF shouldAnalyzeWithGemini THEN "gemini_init" ELSE "backend",
                                 !.backendCalls = IF shouldAnalyzeWithGemini THEN @ ELSE @ + 1]
                  ELSE [@ EXCEPT !.pc = "backend", !.backendCalls = @ + 1]]
    /\ UNCHANGED <<QUES, cacheVars, countVars, latchVars, aiVars, storeVars, pageVars,
                   cfgVars, pendingSubmits>>

\* storeProblemData: storage.get resolved, problemData is built and
\* storage.set is called (365-416).
StoreGet(r) ==
    /\ runs[r].pc \in {"store1_get", "store2_get"}
    /\ runs' = [runs EXCEPT
                  ![r].pending = ProblemData(storage[runs[r].url], TRUE),
                  ![r].pc = IF runs[r].pc = "store1_get" THEN "store1_set" ELSE "store2_set"]
    /\ UNCHANGED <<QUES, cacheVars, countVars, latchVars, aiVars, storeVars, pipeFrame>>

\* backendAPI.pushCurrentProblemData(problemInfo.url) is called (518).
CallBackend(run) ==
    [run EXCEPT !.pc = "backend", !.backendCalls = @ + 1]

\* Variant of AfterFirstStore without the test of shouldAnalyzeWithGemini (477).
AfterFirstStore_unflagged(run) ==
    [run EXCEPT !.pc = "gemini_init"]

\* The first write has completed (473): the analysis stage if flagged
\* (477-481), else the backend push.
AfterFirstStore(run) ==
    IF shouldAnalyzeWithGemini
    THEN [run EXCEPT !.pc = "gemini_init"]
    ELSE CallBackend(run)

\* storage.set resolved (416-419) and the caller goes on.
StoreSet(r) ==
    /\ runs[r].pc \in {"store1_set", "store2_set"}
    /\ storage' = [storage EXCEPT ![runs[r].url] = runs[r].pending]
    /\ runs' = [runs EXCEPT ![r] =
                  IF runs[r].pc = "store1_set"
                  THEN AfterFirstStore([@ EXCEPT !.pending = EmptyRecord])
                  ELSE CallBackend([@ EXCEPT !.pending = EmptyRecord])]
    /\ UNCHANGED <<QUES, cacheVars, countVars, latchVars, aiVars, tuf_code_data, pipeFrame>>

\* Variant of AllAttempts that keeps the failed attempts only.
AllAttempts_failedOnly ==
    SelectSeq(attempts, LAMBDA a : a.code > MinCodeLength /\ a.successful = "false")

\* this.attempts.filter(a => a.code && a.code.length > 10) (485), the first
\* argument of analyzeMistakes (488).
AllAttempts == SelectSeq(attempts, LAMBDA a : a.code > MinCodeLength)

\* Variant of GeminiInitialized that returns from the handler when no key is
\* configured (499-501).
GeminiInitialized_returns(r) ==
    /\ runs[r].pc = "gemini_init"
    /\ runs' = [runs EXCEPT ![r] =
                  IF gemini_api_key
                  THEN [@ EXCEPT !.pc = "analyze", !.analysisCalls = @ + 1,
                                 !.analysisArg = AllAttempts]
                  ELSE [@ EXCEPT !.pc = "AwaitingRetry"]]
    /\ UNCHANGED <<QUES, cacheVars, countVars, latchVars, aiVars, storeVars, pipeFrame>>

\* geminiAPI.initialize() resolved (481-488): analyzeMistakes is called when a
\* key is configured.
GeminiInitialized(r) ==
    /\ runs[r].pc = "gemini_init"
    /\ runs' = [runs EXCEPT ![r] =
                  IF gemini_api_key
                  THEN [@ EXCEPT !.pc = "analyze", !.analysisCalls = @ + 1,
                                 !.analysisArg = AllAttempts]
                  ELSE CallBackend(@)]
    /\ UNCHANGED <<QUES, cacheVars, countVars, latchVars, aiVars, storeVars, pipeFrame>>

Outcomes == {"ok", "fail", "throw"}

\* Variant of Analyzed without the inner try/catch (478, 503-506): a throw
\* unwinds to the catch of handleSuccessfulSubmission (588-590).
Analyzed_unwinds(r, res) ==
    /\ runs[r].pc = "analyze"
    /\ IF res = "ok"
       THEN /\ aiAnalysis' = "summary"
            /\ aiTags' = {"tag"}
            /\ runs' = [runs EXCEPT ![r].pc = "store2_get", ![r].analysisResult = "ok",
                                    ![r].analysisArg = <<>>]
       ELSE /\ UNCHANGED aiVars
            /\ runs' = [runs EXCEPT ![r].pc = IF res = "throw" THEN "AwaitingRetry" ELSE "backend",
                                    ![r].backendCalls = IF res = "throw" THEN @ ELSE @ + 1,
                                    ![r].analysisResult = "failed",
                                    ![r].analysisArg = <<>>]
    /\ UNCHANGED <<QUES, cacheVars, countVars, latchVars, storeVars, pageVars, cfgVars,
                   pendingSubmits>>

\* analyzeMistakes resolved or threw (488-506); analysisArg holds the argument
\* while the call is outstanding.
Analyzed(r, res) ==
    /\ runs[r].pc = "analyze"
    /\ IF res = "ok"
       THEN /\ aiAnalysis' = "summary"
            /\ aiTags' = {"tag"}
            /\ runs' = [runs EXCEPT ![r].pc = "store2_get", ![r].analysisResult = "ok",
                                    ![r].analysisArg = <<>>]
       ELSE /\ UNCHANGED aiVars
            /\ runs' = [runs EXCEPT ![r] = CallBackend([@ EXCEPT !.analysisResult = "failed",
                                                                !.analysisArg = <<>>])]
    /\ UNCHANGED <<QUES, cacheVars, countVars, latchVars, storeVars, pipeFrame>>

\* The backend push resolved or threw (520-543): the toast, then
\* chrome.storage.sync.get(['github_push_enabled']) is awaited.
BackendDone(r, res) ==
    /\ runs[r].pc = "backend"
    /\ runs' = [runs EXCEPT ![r].pc = "settings",
                            ![r].toast = IF res = "ok" THEN "success" ELSE "error"]
    /\ UNCHANGED <<QUES, cacheVars, countVars, latchVars, aiVars, storeVars, pipeFrame>>

\* Reset state (557-568, 574-585).
ResetState ==
    /\ TRIES' = 0
    /\ PUBLIC_CODE' = 0
    /\ SELECTED_LANGUAGE' = ""
    /\ PROBLEM_SLUG' = ""
    /\ attempts' = <<>>
    /\ runCounter' = 0
    /\ incorrectRunCounter' = 0
    /\ hasAnalyzedMistakes' = FALSE
    /\ shouldAnalyzeWithGemini' = FALSE
    /\ aiAnalysis' = NULL
    /\ aiTags' = {}
    /\ latchCalls' = 0

\* githubSettings.github_push_enabled !== false (544)
GithubPushEnabled == github_push_enabled

\* The settings read resolved (543-549, 572-586).
SettingsRead(r) ==
    /\ runs[r].pc = "settings"
    /\ IF GithubPushEnabled
       THEN /\ runs' = [runs EXCEPT ![r].pc = "github", ![r].githubCalls = @ + 1]
            /\ UNCHANGED <<cacheVars, countVars, latchVars, aiVars>>
       ELSE /\ runs' = [runs EXCEPT ![r].pc = "Reset"]
            /\ ResetState
    /\ UNCHANGED <<QUES, storeVars, pipeFrame>>

\* Variant of GithubPcAfter that does not test githubResult.success (551).
GithubPcAfter_unchecked(res) == "remove"

\* githubAPI.pushSolution resolved or threw (549-571, 588-590): on success
\* storage.remove(['tuf_code_data']) is awaited.
GithubPcAfter(res) == IF res = "ok" THEN "remove" ELSE "AwaitingRetry"

\* Variant of GithubDone without the catch of handleSuccessfulSubmission
\* (588-590): a throw of pushSolution rejects the handler's promise.
GithubDone_rejects(r, res) ==
    /\ runs[r].pc = "github"
    /\ runs' = [runs EXCEPT ![r].pc = IF res = "throw" THEN "Rejected" ELSE GithubPcAfter(res),
                            ![r].githubResult = IF res = "ok" THEN "ok" ELSE "failed"]
    /\ UNCHANGED <<QUES, cacheVars, countVars, latchVars, aiVars, storeVars, pipeFrame>>

\* Variant of GithubDone that resets the state whatever the result (551-571).
GithubDone_clears(r, res) ==
    /\ runs[r].pc = "github"
    /\ runs' = [runs EXCEPT ![r].pc = IF res = "ok" THEN "Reset" ELSE "AwaitingRetry",
                            ![r].githubResult = IF res = "ok" THEN "ok" ELSE "failed"]
    /\ ResetState
    /\ UNCHANGED <<QUES, storeVars, pageVars, cfgVars, pendingSubmits>>

GithubDone(r, res) ==
    /\ runs[r].pc = "github"
    /\ runs' = [runs EXCEPT ![r].pc = GithubPcAfter(res),
                            ![r].githubResult = IF res = "ok" THEN "ok" ELSE "failed"]
    /\ UNCHANGED <<QUES, cacheVars, countVars, latchVars, aiVars, storeVars, pipeFrame>>

\* storage.remove resolved (555-568).
CodeDataRemoved(r) ==
    /\ runs[r].pc = "remove"
    /\ tuf_code_data' = NoCodeData
    /\ runs' = [runs EXCEPT ![r].pc = "Reset"]
    /\ ResetState
    /\ UNCHANGED <<QUES, storage, pipeFrame>>

\* A page without the timer utility (window.ProblemTimer undefined: the
\* guards at 56, 97 and 391).
TimerIdle ==
    /\ timerLoaded = FALSE
    /\ now = 1 /\ problemUrl = NULL /\ startTime = 0 /\ pausedTime = 0
    /\ isTabHidden = FALSE /\ tabHiddenAt = 0 /\ docHidden = FALSE
    /\ overlay = FALSE /\ browser_session_restarted = FALSE
    /\ loads = <<>> /\ saveQueue = <<>>
    /\ lastElapsed = NoCall
    /\ sessionStart = 0 /\ hiddenTotal = 0
    /\ hideEventAt = 0

(***************************************************************************)
(* Spec: the message listener and the pipeline on one problem page.  A     *)
(* page event is a message of the interceptor; the other steps are         *)
(* continuations of handlers.                                              *)
(***************************************************************************)
PipeBound ==
    /\ evCount <= MaxEvents
    /\ Len(runs) <= MaxRuns

Event(A) ==
    /\ A
    /\ evCount' = evCount + 1
    /\ PipeBound'
    /\ UNCHANGED <<failedRuns, awaitingRunResult, lastEvent, timerVars, peerVars, hideEventAt>>

Internal(A) ==
    /\ A
    /\ UNCHANGED <<histVars, timerVars, peerVars, hideEventAt>>

Init == PipeInit /\ TimerIdle /\ AuthIdle /\ XhrIdle

Next ==
    \/ \E p \in SubmitPayloads : Event(CodeSubmit(p))
    \/ Internal(CodeSubmitStored)
    \/ \E p \in RunPayloads : Event(CodeRun(p))
    \/ \E res \in RunResults : Event(RunResponse(res))
    \/ Event(SubmissionFailed)
    \/ Event(SubmissionSucceeded)
    \/ \E r \in 1..Len(runs), d \in DomTitles : Internal(Extract(r, d))
    \/ \E r \in 1..Len(runs), fresh \in BOOLEAN : Internal(ExtractFromStorage(r, fresh))
    \/ \E r \in 1..Len(runs) : Internal(StoreGet(r))
    \/ \E r \in 1..Len(runs) : Internal(StoreSet(r))
    \/ \E r \in 1..Len(runs) : Internal(GeminiInitialized(r))
    \/ \E r \in 1..Len(runs), res \in Outcomes : Internal(Analyzed(r, res))
    \/ \E r \in 1..Len(runs), res \in Outcomes : Internal(BackendDone(r, res))
    \/ \E r \in 1..Len(runs) : Internal(SettingsRead(r))
    \/ \E r \in 1..Len(runs), res \in Outcomes : Internal(GithubDone(r, res))
    \/ \E r \in 1..Len(runs) : Internal(CodeDataRemoved(r))

Spec == Init /\ [][Next]_vars

(***************************************************************************)
(* SpecLive: the pipeline with the scheduling of the page: the promise a   *)
(* handler awaits (the sleep, a storage call, a collaborator's call)       *)
(* settles and the event loop runs the continuation.  The user has either  *)
(* run nothing yet or made two failed runs, which latched the analysis.    *)
(***************************************************************************)
FailedRun(n) == [code |-> 11, language |-> "cpp", runNumber |-> n, successful |-> "false"]

LiveInit ==
    /\ QUES = "" /\ SELECTED_LANGUAGE = "" /\ PUBLIC_CODE = 0 /\ PROBLEM_SLUG = ""
    /\ TRIES = 0
    /\ currentPathname = "p1" /\ locationPath = "p1"
    /\ \E latched \in BOOLEAN :
          /\ attempts = IF latched THEN <<FailedRun(1), FailedRun(2)>> ELSE <<>>
          /\ runCounter = IF latched THEN 2 ELSE 0
          /\ incorrectRunCounter = IF latched THEN 2 ELSE 0
          /\ hasAnalyzedMistakes = latched
          /\ shouldAnalyzeWithGemini = latched
          /\ latchCalls = IF latched THEN 1 ELSE 0
          /\ failedRuns = IF latched THEN 2 ELSE 0
    /\ aiAnalysis = NULL /\ aiTags = {}
    /\ storage = [k \in Keys |-> EmptyRecord]
    /\ tuf_code_data = NoCodeData
    /\ gemini_api_key \in BOOLEAN
    /\ github_push_enabled \in BOOLEAN
    /\ pendingSubmits = <<>>
    /\ runs = <<>>
    /\ awaitingRunResult = FALSE /\ evCount = 0
    /\ lastEvent = ""
    /\ TimerIdle
    /\ AuthIdle
    /\ XhrIdle

LiveEvent(A) ==
    /\ A
    /\ evCount' = evCount + 1
    /\ evCount' <= MaxLiveEvents
    /\ Len(runs') <= MaxRuns
    /\ UNCHANGED <<failedRuns, awaitingRunResult, lastEvent, timerVars, peerVars, hideEventAt>>

Continuation ==
    \/ Internal(CodeSubmitStored)
    \/ \E r \in 1..Len(runs), d \in DomTitles : Internal(Extract(r, d))
    \/ \E r \in 1..Len(runs), fresh \in BOOLEAN : Internal(ExtractFromStorage(r, fresh))
    \/ \E r \in 1..Len(runs) : Internal(StoreGet(r))
    \/ \E r \in 1..Len(runs) : Internal(StoreSet(r))
    \/ \E r \in 1..Len(runs) : Internal(GeminiInitialized(r))
    \/ \E r \in 1..Len(runs), res \in Outcomes : Internal(Analyzed(r, res))
    \/ \E r \in 1..Len(runs), res \in Outcomes : Internal(BackendDone(r, res))
    \/ \E r \in 1..Len(runs) : Internal(SettingsRead(r))
    \/ \E r \in 1..Len(runs), res \in Outcomes : Internal(GithubDone(r, res))
    \/ \E r \in 1..Len(runs) : Internal(CodeDataRemoved(r))

LiveNext ==
    \/ \E p \in SubmitPayloads : LiveEvent(CodeSubmit(p))
    \/ LiveEvent(SubmissionFailed)
    \/ LiveEvent(SubmissionSucceeded)
    \/ Continuation

SpecLive == LiveInit /\ [][LiveNext]_vars /\ WF_vars(Continuation)

(***************************************************************************)
(* SpecOverlap: the pipeline when success results may arrive while a run   *)
(* is in flight: the listener calls handleSuccessfulSubmission for each    *)
(* of them (199-201) and nothing makes a run wait for another.             *)
(***************************************************************************)
OverlapEvent(A) ==
    /\ A
    /\ evCount' = evCount + 1
    /\ evCount' <= MaxOverlapEvents
    /\ Len(runs') <= MaxOverlap
    /\ UNCHANGED <<failedRuns, awaitingRunResult, lastEvent, timerVars, peerVars, hideEventAt>>

OverlapNext ==
    \/ \E p \in SubmitPayloads : OverlapEvent(CodeSubmit(p))
    \/ OverlapEvent(SubmissionFailed)
    \/ OverlapEvent(SubmissionSucceeded)
    \/ Continuation

SpecOverlap == LiveInit /\ [][OverlapNext]_vars

(***************************************************************************)
(* SpecTracker: the message listener, the question poll and the URL poll   *)
(* across problem pages, with no successful submission.  The history       *)
(* variables record the kind of each event and the failed runs: a run      *)
(* event followed by a failing run result, counted since the tracker last  *)
(* saw the problem change and set back to 0 by a passing run.              *)
(***************************************************************************)
Observed(kind) ==
    /\ evCount' = evCount + 1
    /\ evCount' <= MaxTrackerEvents
    /\ lastEvent' = kind
    /\ UNCHANGED <<timerVars, peerVars, hideEventAt>>

Unobserved == UNCHANGED <<evCount, lastEvent, awaitingRunResult, timerVars, peerVars, hideEventAt>>

FailedRunsAfter(res) ==
    IF ~awaitingRunResult THEN failedRuns
    ELSE IF RunPassed(res) THEN 0
    ELSE Min(failedRuns + 1, RunFailThreshold + 1)

TrackerNext ==
    \/ \E p \in SubmitPayloads :
          CodeSubmit(p) /\ Observed("CODE_SUBMIT") /\ UNCHANGED <<failedRuns, awaitingRunResult>>
    \/ CodeSubmitStored /\ Unobserved /\ UNCHANGED failedRuns
    \/ \E p \in RunPayloads :
          CodeRun(p) /\ Observed("CODE_RUN") /\ awaitingRunResult' = TRUE /\ UNCHANGED failedRuns
    \/ \E res \in RunResults :
          /\ RunResponse(res) /\ Observed("RUN_RESPONSE")
          /\ awaitingRunResult' = FALSE
          /\ failedRuns' = FailedRunsAfter(res)
    \/ SubmissionFailed /\ Observed("SUBMISSION_RESPONSE") /\ UNCHANGED <<failedRuns, awaitingRunResult>>
    \/ \E p \in Paths :
          Navigate(p) /\ Observed("navigation") /\ UNCHANGED <<failedRuns, awaitingRunResult>>
    \/ UrlChanged /\ UNCHANGED <<evCount, lastEvent, awaitingRunResult, peerVars, hideEventAt>> /\ failedRuns' = 0
    \/ \E d \in DomTitles : FetchQuestionDetails(d) /\ Unobserved /\ UNCHANGED failedRuns

SpecTracker == Init /\ [][TrackerNext]_vars

(***************************************************************************)
(* SpecTimer: the ProblemTimer on a page with the timer utility, from the  *)
(* first startTimer call of initialize() (takeuforward.js 55-58) on, under *)
(* clock ticks, visibility events, the display interval and the reset      *)
(* button, while the page stays on one problem.  The page may have been    *)
(* opened in a background tab.                                             *)
(***************************************************************************)
TimerStartedAt(t) ==
    /\ timerLoaded = TRUE
    /\ now = t
    /\ docHidden \in BOOLEAN
    /\ isTabHidden = docHidden
    /\ startTime = 0 /\ pausedTime = 0 /\ tabHiddenAt = 0
    /\ problemUrl = SlugOf("p1")
    /\ loads = <<[pc |-> "session", key |-> ""]>>
    /\ saveQueue = <<>>
    /\ overlay = FALSE
    /\ browser_session_restarted \in BOOLEAN
    /\ lastElapsed = NoCall
    /\ sessionStart = 0 /\ hiddenTotal = 0
    /\ hideEventAt = 0

TimerStarted == TimerStartedAt(1)

TimerInit ==
    /\ PipeInit
    /\ gemini_api_key /\ github_push_enabled
    /\ TimerStarted
    /\ AuthIdle
    /\ XhrIdle

\* A step that calls reset (the URL poll) or resetTimer (the reset button).
ResetCalled ==
    \/ currentPathname' # currentPathname
    \/ /\ Len(saveQueue') > Len(saveQueue)
       /\ saveQueue'[Len(saveQueue')].waiter = "reset"

\* A step of reset or resetTimer, of loadFromStorage or of the start that
\* follows it, or a correction by getElapsedActiveTime.
ClockRestarted ==
    \/ ResetCalled
    \/ Len(loads') # Len(loads)
    \/ \E i \in 1..Len(loads) : i <= Len(loads') /\ loads'[i].pc # loads[i].pc
    \/ lastElapsed'.called /\ lastElapsed'.raw < 0

\* The history of visibility events: a step that hides the document of an
\* active session records the clock; the record is dropped when the document
\* is visible again and when the clock is restarted.
HideObserved ==
    hideEventAt' = IF ~docHidden' THEN 0
                   ELSE IF ~docHidden THEN (IF startTime # 0 THEN now ELSE 0)
                   ELSE IF ClockRestarted THEN 0
                   ELSE hideEventAt

TimerEvent(A) ==
    /\ A
    /\ evCount' = evCount + 1
    /\ evCount' <= MaxTimerEvents
    /\ UNCHANGED <<failedRuns, awaitingRunResult, lastEvent, peerVars>>
    /\ HideObserved

TimerStep(A) ==
    /\ A
    /\ UNCHANGED <<histVars, peerVars>>
    /\ HideObserved

TimerNext ==
    \/ TimerStep(Tick)
    \/ TimerEvent(Hide)
    \/ TimerEvent(Show)
    \/ TimerEvent(ResetClick)
    \/ \E i \in 1..Len(loads) : TimerStep(LoadSession(i))
    \/ \E i \in 1..Len(loads) : TimerStep(LoadRemoved(i))
    \/ \E i \in 1..Len(loads) : TimerStep(LoadRecord(i))
    \/ \E i \in 1..Len(loads) : TimerStep(LoadPosition(i))
    \/ \E i \in 1..Len(saveQueue) : TimerStep(SaveGot(i))
    \/ \E i \in 1..Len(saveQueue) : TimerStep(SaveSet(i))
    \/ \E i \in 1..Len(saveQueue) : TimerStep(SaveDone(i))
    \/ TimerStep(UpdateDisplay)

SpecTimer == TimerInit /\ [][TimerNext]_vars

(***************************************************************************)
(* SpecTimerNav: the ProblemTimer on a page with the timer utility while   *)
(* the user moves between problem pages: the URL poll calls reset() and    *)
(* startTimer(slug) (takeuforward.js 96-100).  lastEvent holds the kind of *)
(* the last page event.                                                    *)
(***************************************************************************)
NavEvent(A, kind) ==
    /\ A
    /\ evCount' = evCount + 1
    /\ evCount' <= MaxNavEvents
    /\ lastEvent' = kind
    /\ UNCHANGED <<failedRuns, awaitingRunResult, peerVars>>
    /\ HideObserved

NavStep(A) ==
    /\ A
    /\ now' <= MaxNavTime
    /\ UNCHANGED <<histVars, peerVars>>
    /\ HideObserved

NavNext ==
    \/ NavStep(Tick)
    \/ NavEvent(Hide, "hide")
    \/ NavEvent(Show, "show")
    \/ NavEvent(ResetClick, "reset")
    \/ \E p \in TimerPaths :
          NavEvent(Navigate(p) /\ lastElapsed' = NoCall /\ UNCHANGED timerState,
                   "navigation")
    \/ NavStep(UrlChanged)
    \/ \E i \in 1..Len(loads) : NavStep(LoadSession(i))
    \/ \E i \in 1..Len(loads) : NavStep(LoadRemoved(i))
    \/ \E i \in 1..Len(loads) : NavStep(LoadRecord(i))
    \/ \E i \in 1..Len(loads) : NavStep(LoadPosition(i))
    \/ \E i \in 1..Len(saveQueue) : NavStep(SaveGot(i))
    \/ \E i \in 1..Len(saveQueue) : NavStep(SaveSet(i))
    \/ \E i \in 1..Len(saveQueue) : NavStep(SaveDone(i))
    \/ NavStep(UpdateDisplay)

\* The timer fields of an earlier visit.
TimedEarlier == [EmptyRecord EXCEPT !.problemStartTime = 1, !.pausedTime = 1]

\* The record of problem s2 may be one of an earlier visit, which also holds
\* fields the timer does not compute.
SolvedAndTimed ==
    [TimedEarlier EXCEPT !.solved = [value |-> TRUE, tries |-> 1], !.aiTags = {"tag"}]

NavInit ==
    /\ QUES = "" /\ SELECTED_LANGUAGE = "" /\ PUBLIC_CODE = 0 /\ PROBLEM_SLUG = ""
    /\ TRIES = 0
    /\ currentPathname = "p1" /\ locationPath = "p1"
    /\ attempts = <<>> /\ runCounter = 0 /\ incorrectRunCounter = 0
    /\ hasAnalyzedMistakes = FALSE /\ shouldAnalyzeWithGemini = FALSE
    /\ aiAnalysis = NULL /\ aiTags = {}
    /\ \E rec \in {EmptyRecord, SolvedAndTimed} :
          storage = [k \in Keys |-> IF k = "s2" THEN rec ELSE EmptyRecord]
    /\ tuf_code_data = NoCodeData
    /\ gemini_api_key = TRUE /\ github_push_enabled = TRUE
    /\ pendingSubmits = <<>>
    /\ runs = <<>>
    /\ latchCalls = 0 /\ failedRuns = 0 /\ awaitingRunResult = FALSE /\ evCount = 0
    /\ lastEvent = ""
    /\ TimerStartedAt(2)
    /\ AuthIdle
    /\ XhrIdle

SpecTimerNav == NavInit /\ [][NavNext]_vars

(***************************************************************************)
(* SpecResume: the page is opened on a problem whose record may have been  *)
(* stored as solved in an earlier session; the user submits without        *)
(* running the code first.                                                 *)
(***************************************************************************)
SolvedEarlier ==
    [EmptyRecord EXCEPT !.solved = [value |-> TRUE, tries |-> 2],
                        !.aiAnalysis = "summary", !.aiTags = {"tag"},
                        !.shouldAnalyzeWithGemini = TRUE,
                        !.problemStartTime = 1]

ResumeInit ==
    /\ QUES = "" /\ SELECTED_LANGUAGE = "" /\ PUBLIC_CODE = 0 /\ PROBLEM_SLUG = ""
    /\ TRIES = 0
    /\ currentPathname = "p1" /\ locationPath = "p1"
    /\ attempts = <<>> /\ runCounter = 0 /\ incorrectRunCounter = 0
    /\ hasAnalyzedMistakes = FALSE /\ shouldAnalyzeWithGemini = FALSE
    /\ aiAnalysis = NULL /\ aiTags = {}
    /\ \E rec \in {EmptyRecord, SolvedEarlier} :
          storage = [k \in Keys |-> IF k = "p1" THEN rec ELSE EmptyRecord]
    /\ tuf_code_data = NoCodeData
    /\ gemini_api_key \in BOOLEAN
    /\ github_push_enabled \in BOOLEAN
    /\ pendingSubmits = <<>>
    /\ runs = <<>>
    /\ latchCalls = 0 /\ failedRuns = 0 /\ awaitingRunResult = FALSE /\ evCount = 0
    /\ lastEvent = ""
    /\ TimerIdle
    /\ AuthIdle
    /\ XhrIdle

ResumeNext ==
    \/ \E p \in SubmitPayloads : Event(CodeSubmit(p))
    \/ Internal(CodeSubmitStored)
    \/ Event(SubmissionFailed)
    \/ Event(SubmissionSucceeded)
    \/ \E r \in 1..Len(runs), d \in DomTitles : Internal(Extract(r, d))
    \/ \E r \in 1..Len(runs), fresh \in BOOLEAN : Internal(ExtractFromStorage(r, fresh))
    \/ \E r \in 1..Len(runs) : Internal(StoreGet(r))
    \/ \E r \in 1..Len(runs) : Internal(StoreSet(r))
    \/ \E r \in 1..Len(runs) : Internal(GeminiInitialized(r))
    \/ \E r \in 1..Len(runs), res \in Outcomes : Internal(Analyzed(r, res))
    \/ \E r \in 1..Len(runs), res \in Outcomes : Internal(BackendDone(r, res))
    \/ \E r \in 1..Len(runs) : Internal(SettingsRead(r))
    \/ \E r \in 1..Len(runs), res \in Outcomes : Internal(GithubDone(r, res))
    \/ \E r \in 1..Len(runs) : Internal(CodeDataRemoved(r))

SpecResume == ResumeInit /\ [][ResumeNext]_vars

(***************************************************************************)
(* SpecChange: the pipeline while the page moves to another problem: a     *)
(* tracker that may have latched, submit events, one run and the URL poll. *)
(***************************************************************************)
ChangeEvent(A) ==
    /\ A
    /\ evCount' = evCount + 1
    /\ evCount' <= MaxChangeEvents
    /\ Len(runs') <= MaxRuns
    /\ UNCHANGED <<failedRuns, awaitingRunResult, lastEvent, timerVars, peerVars, hideEventAt>>

ChangeNext ==
    \/ \E p \in SubmitPayloads : ChangeEvent(CodeSubmit(p))
    \/ ChangeEvent(SubmissionFailed)
    \/ ChangeEvent(SubmissionSucceeded)
    \/ \E p \in Paths : ChangeEvent(Navigate(p))
    \/ UrlChanged /\ UNCHANGED <<evCount, lastEvent, awaitingRunResult, peerVars, hideEventAt>>
                  /\ failedRuns' = 0
    \/ Continuation

SpecChange == LiveInit /\ [][ChangeNext]_vars

(***************************************************************************)
(* SpecInflight: the listener and the URL poll while a pipeline run is in  *)
(* flight: run and submit events of the page, the success result that     *)
(* starts the one run, and the continuations of the run, in every order.   *)
(***************************************************************************)
InflightEvent(A) ==
    /\ A
    /\ evCount' = evCount + 1
    /\ evCount' <= MaxInflightEvents
    /\ Len(runs') <= 1
    /\ UNCHANGED <<failedRuns, awaitingRunResult, lastEvent, timerVars, peerVars, hideEventAt>>

InflightNext ==
    \/ \E p \in SubmitPayloads : InflightEvent(CodeSubmit(p))
    \/ \E p \in RunPayloads : InflightEvent(CodeRun(p))
    \/ \E res \in RunResults : InflightEvent(RunResponse(res))
    \/ InflightEvent(SubmissionSucceeded)
    \/ \E p \in Paths : InflightEvent(Navigate(p))
    \/ UrlChanged /\ UNCHANGED <<evCount, lastEvent, awaitingRunResult, peerVars, hideEventAt>>
                  /\ failedRuns' = 0
    \/ Continuation

SpecInflight == LiveInit /\ [][InflightNext]_vars

(***************************************************************************)
(* SpecSaveFail: the ProblemTimer when a chrome.storage call of a save may *)
(* reject.  Every storage call returns or rejects, so the steps of the     *)
(* started save are weakly fair.                                           *)
(***************************************************************************)
SaveEvent(A) ==
    /\ A
    /\ evCount' = evCount + 1
    /\ evCount' <= MaxSaveEvents
    /\ lastEvent' = ""
    /\ UNCHANGED <<failedRuns, awaitingRunResult, peerVars>>
    /\ HideObserved

SaveStep(A, kind) ==
    /\ A
    /\ now' <= MaxSaveTime
    /\ lastEvent' = kind
    /\ UNCHANGED <<failedRuns, awaitingRunResult, evCount, peerVars>>
    /\ HideObserved

SaveProgress ==
    \/ \E i \in 1..Len(saveQueue) : SaveStep(SaveGot(i), "")
    \/ \E i \in 1..Len(saveQueue) : SaveStep(SaveSet(i), "")
    \/ \E i \in 1..Len(saveQueue) : SaveStep(SaveDone(i), "")
    \/ \E i \in 1..Len(saveQueue) : SaveStep(SaveFailed(i), "save_failed")

SaveFailNext ==
    \/ SaveStep(Tick, "")
    \/ SaveEvent(Hide)
    \/ SaveEvent(Show)
    \/ SaveEvent(ResetClick)
    \/ \E i \in 1..Len(loads) : SaveStep(LoadSession(i), "")
    \/ \E i \in 1..Len(loads) : SaveStep(LoadRemoved(i), "")
    \/ \E i \in 1..Len(loads) : SaveStep(LoadRecord(i), "")
    \/ \E i \in 1..Len(loads) : SaveStep(LoadPosition(i), "")
    \/ SaveStep(UpdateDisplay, "")
    \/ SaveProgress

SpecSaveFail == TimerInit /\ [][SaveFailNext]_vars /\ WF_vars(SaveProgress)

(***************************************************************************)
(* SpecAuth: the website-auth content script under requests of the         *)
(* extension, messages of the website and the passing of time.  A pending  *)
(* timeout fires when it is due, so time passes and due timeouts fire      *)
(* weakly fairly.                                                          *)
(***************************************************************************)
AuthStep(A) ==
    /\ A
    /\ UNCHANGED <<pipeVars, timerVars, hideEventAt, sessionVars, xhrs>>

TimePasses ==
    \/ AuthStep(AuthTick)
    \/ \E i \in 1..Len(authRequests) : AuthStep(AuthTimeoutFires(i))

AuthInit ==
    /\ PipeInit
    /\ gemini_api_key /\ github_push_enabled
    /\ TimerIdle
    /\ firebase_user \in {"absent", "valid", "invalid", "blocked"}
    /\ authRequests = <<>>
    /\ SessionIdle
    /\ XhrIdle

AuthNext ==
    \/ AuthStep(HandleAuthStatusRequest)
    \/ AuthStep(HandleSignOutRequest)
    \/ \E type \in {"AUTH_STATUS_RESPONSE", "SIGN_OUT_RESPONSE"}, ok \in BOOLEAN :
          AuthStep(WebsiteResponse(type, ok))
    \/ TimePasses

SpecAuth == AuthInit /\ [][AuthNext]_vars /\ WF_vars(TimePasses)

(***************************************************************************)
(* SpecSession: the ExtensionAuth instance of a page of the extension,     *)
(* from the init() call that follows its construction (369-376), under     *)
(* login, signOut, syncFromStorage and updateAuthStatus calls in every     *)
(* order with the results of the requests and of the storage operations.   *)
(* The storage may hold the session of an earlier login.                   *)
(***************************************************************************)
SessionStep(A) ==
    /\ A
    /\ authCalls' <= MaxAuthCalls
    /\ UNCHANGED <<pipeVars, timerVars, hideEventAt, websiteVars, xhrs>>

EarlierToken == [user |-> "alice", login |-> 0]

SessionInit ==
    /\ PipeInit
    /\ gemini_api_key /\ github_push_enabled
    /\ TimerIdle
    /\ firebase_user = "absent" /\ authRequests = <<>>
    /\ isAuthenticated = FALSE /\ user = NULL /\ token = NoToken
    /\ \E stored \in BOOLEAN :
          /\ auth_user = IF stored THEN "alice" ELSE NULL
          /\ auth_token = IF stored THEN EarlierToken ELSE NoToken
          /\ auth_timestamp = stored
    /\ authOps = <<NewOp("sync", "get", NULL, NoToken)>>
    /\ authCalls = 0
    /\ XhrIdle

LoginNext ==
    \/ \E u \in Users : SessionStep(Login(u))
    \/ \E i \in 1..Len(authOps), res \in LoginResults : SessionStep(LoginReturns(i, res))
    \/ SessionStep(SignOut)
    \/ SessionStep(SyncFromStorage)
    \/ \E i \in 1..Len(authOps) : SessionStep(SessionStored(i))
    \/ \E i \in 1..Len(authOps) : SessionStep(SessionCleared(i))
    \/ \E i \in 1..Len(authOps) : SessionStep(SessionRead(i))

\* The calls the scripts of the repository make: login, signOut and
\* syncFromStorage.
SpecLogin == SessionInit /\ [][LoginNext]_vars

SessionNext ==
    \/ LoginNext
    \/ \E a \in BOOLEAN, u \in Users \cup {NULL}, known \in BOOLEAN, persist \in BOOLEAN :
          SessionStep(UpdateAuthStatusCalled(a, u,
                          IF known /\ u # NULL THEN [user |-> u, login |-> 0] ELSE NoToken,
                          persist))

\* With calls of updateAuthStatus by another script as well.
SpecSession == SessionInit /\ [][SessionNext]_vars

(***************************************************************************)
(* SpecInterceptor: the page opens requests and sends them, with every     *)
(* endpoint, method and body.                                              *)
(***************************************************************************)
XhrStep(A) ==
    /\ A
    /\ UNCHANGED <<pipeVars, timerVars, hideEventAt, authVars>>

InterceptorNext ==
    \/ \E method \in Methods, url \in Endpoints : XhrStep(XhrOpen(method, url))
    \/ \E i \in 1..Len(xhrs), body \in Bodies : XhrStep(XhrSend(i, body))

SpecInterceptor == Init /\ [][InterceptorNext]_vars

(***************************************************************************)
(* Properties of the sync pipeline.                                        *)
(***************************************************************************)
PassedExtraction(run) == run.pc \notin {"sleep", "extract_get", "Aborted"}

Ended(run) == run.pc \in {"Reset", "AwaitingRetry"}

\* C1: a pipeline run is started only by a submit result with success =
\* true; a run that passed extraction calls the backend push exactly once
\* and the code-host push at most once (exactly once when the toggle is
\* enabled) by the time it has ended; no page event (run event, run result,
\* submit event, submit result) writes a record or pushes in its own step.
C1_RunStartedOnlyBySuccess ==
    Len(runs') # Len(runs) => SubmissionSucceeded

C1_EventsWriteNothing ==
    evCount' # evCount =>
        /\ storage' = storage
        /\ \A r \in 1..Len(runs) : runs'[r] = runs[r]

C1_Pushes ==
    \A r \in 1..Len(runs) :
        /\ runs[r].backendCalls <= 1
        /\ runs[r].githubCalls <= 1
        /\ ~PassedExtraction(runs[r]) =>
              runs[r].backendCalls = 0 /\ runs[r].githubCalls = 0
        /\ Ended(runs[r]) =>
              /\ runs[r].backendCalls = 1
              /\ github_push_enabled => runs[r].githubCalls = 1

Cleared ==
    /\ TRIES = 0 /\ PUBLIC_CODE = 0 /\ SELECTED_LANGUAGE = "" /\ PROBLEM_SLUG = ""
    /\ attempts = <<>> /\ runCounter = 0 /\ incorrectRunCounter = 0
    /\ ~hasAnalyzedMistakes /\ ~shouldAnalyzeWithGemini

\* C2: a run that passed extraction has ended in Reset exactly when the
\* code-host push returned success or the toggle is disabled, and otherwise
\* in AwaitingRetry; the step into Reset clears TRIES, the cached code,
\* language and problem id, the attempts, the counters and the latch; the
\* backend result plays no part.
C2_EndState ==
    \A r \in 1..Len(runs) :
        /\ runs[r].pc = "Reset" =>
              (runs[r].githubResult = "ok" \/ ~github_push_enabled)
        /\ runs[r].pc = "AwaitingRetry" =>
              (runs[r].githubResult = "failed" /\ github_push_enabled)
        /\ runs[r].githubResult = "ok" => runs[r].pc \in {"remove", "Reset"}
        /\ (~github_push_enabled /\ runs[r].toast # "none") =>
              runs[r].pc \in {"settings", "Reset"}

C2_ResetStep ==
    \A r \in 1..Len(runs) :
        (runs[r].pc # "Reset" /\ runs'[r].pc = "Reset") => Cleared'

C3_Aborted ==
    \A r \in 1..Len(runs) :
        runs[r].pc = "Aborted" =>
            /\ runs[r].url = "" /\ runs[r].pending = EmptyRecord
            /\ runs[r].analysisCalls = 0
            /\ runs[r].backendCalls = 0
            /\ runs[r].githubCalls = 0

C3_ExtractionStep ==
    \A r \in 1..Len(runs) :
        (runs[r].pc \in {"sleep", "extract_get"} /\ runs'[r] # runs[r]) =>
            /\ UNCHANGED <<countVars, hasAnalyzedMistakes, shouldAnalyzeWithGemini, storage>>
            /\ (runs'[r].pc # "extract_get" /\ (QUES' = "" \/ PUBLIC_CODE' = 0)) =>
                  runs'[r].pc = "Aborted"

C3_AbortLeavesTracker ==
    /\ []C3_Aborted
    /\ [][C3_ExtractionStep]_vars

C3_Witness ==
    \E r \in 1..Len(runs) :
        /\ runs[r].pc = "Aborted"
        /\ QUES = ""
        /\ TRIES = 1 /\ incorrectRunCounter = SubmitFailThreshold
        /\ hasAnalyzedMistakes
        /\ \A k \in Keys : storage[k] = EmptyRecord

C5_WriteKeepsSolved ==
    \A k \in Keys : storage[k].solved.value => storage'[k].solved.value

C5_StoreKeepsSolved ==
    \A k \in Keys : \A solved \in BOOLEAN :
        storage[k].solved.value => ProblemData(storage[k], solved).solved.value

C5_StickySolved ==
    [][C5_WriteKeepsSolved]_vars /\ []C5_StoreKeepsSolved

C5_Witness ==
    \E r \in 1..Len(runs) :
        /\ runs[r].pc = "backend"
        /\ runs[r].analysisCalls = 1
        /\ TRIES = 1
        /\ storage[runs[r].url].solved = [value |-> TRUE, tries |-> 2]
        /\ storage[runs[r].url].aiAnalysis = "summary"
        /\ aiAnalysis = "summary"

(***************************************************************************)
(* Properties of the AttemptTracker.                                       *)
(***************************************************************************)
ResetReached ==
    \E r \in 1..Len(runs) : runs[r].pc # "Reset" /\ runs'[r].pc = "Reset"

\* C6 as stated: while the problem identity stays the same, the latch, once
\* true, is never set back to false.
C6_LatchNeverUnset ==
    [][(hasAnalyzedMistakes /\ currentPathname' = currentPathname)
          => hasAnalyzedMistakes']_vars

\* C6: the latch, once true, is set back to false only by an identity
\* change or by the step in which a pipeline run reaches Reset.
C6_LatchUnsetOnlyByReset ==
    [][(hasAnalyzedMistakes /\ ~hasAnalyzedMistakes')
          => (currentPathname' # currentPathname \/ ResetReached)]_vars

C6_Witness ==
    \E r \in 1..Len(runs) :
        /\ runs[r].pc = "Reset"
        /\ runs[r].analysisCalls = 1
        /\ ~hasAnalyzedMistakes /\ ~shouldAnalyzeWithGemini
        /\ currentPathname = "p1"

FailedAttempts ==
    Cardinality({i \in 1..Len(attempts) : attempts[i].successful = "false"})

PendingToFail ==
    \E i \in 1..Len(attempts) :
        /\ attempts[i].successful = NULL
        /\ Len(attempts') >= i
        /\ attempts'[i].successful = "false"

\* C8: a run result increments the failure counter, by one, exactly when it
\* moves a run Attempt from pending to fail; an Attempt whose outcome is
\* set keeps it for as long as the tracker holds the Attempt.
C8_RunResultStep ==
    (evCount' # evCount /\ lastEvent' = "RUN_RESPONSE") =>
        /\ incorrectRunCounter' \in {incorrectRunCounter, incorrectRunCounter + 1}
        /\ incorrectRunCounter' = incorrectRunCounter + 1 <=> PendingToFail

C8_OutcomeKept ==
    \/ attempts' = <<>>
    \/ /\ Len(attempts') >= Len(attempts)
       /\ \A i \in 1..Len(attempts) :
             attempts[i].successful # NULL => attempts'[i] = attempts[i]

C8_CountsPendingToFailOnce ==
    [][C8_RunResultStep /\ C8_OutcomeKept]_vars

C8_Witness ==
    /\ lastEvent = "RUN_RESPONSE" /\ ~awaitingRunResult
    /\ evCount = 3 /\ runCounter = 1
    /\ Len(attempts) = 1 /\ attempts[1].successful = "false"
    /\ incorrectRunCounter = 1
    /\ failedRuns = 1

(***************************************************************************)
(* Properties of the ProblemTimer.                                         *)
(***************************************************************************)

\* C9 as stated: in a session that started with the document visible, every
\* getElapsedActiveTime call returns the ticks since the start of the
\* session less the ticks the document was hidden since then.
C9_ElapsedIsWallClockLessHidden ==
    (lastElapsed.called /\ lastElapsed.tracked) => lastElapsed.ret = lastElapsed.expected

\* C10: getElapsedActiveTime never returns a negative value; a call whose
\* raw value is negative returns 0 and leaves startTime = now and
\* pausedTime = 0.
C10_NeverNegative ==
    lastElapsed.called =>
        /\ lastElapsed.ret >= 0
        /\ lastElapsed.raw >= 0 => lastElapsed.ret = lastElapsed.raw
        /\ lastElapsed.raw < 0 =>
              (lastElapsed.ret = 0 /\ startTime = now /\ pausedTime = 0)

C10_Witness ==
    /\ lastElapsed.called
    /\ lastElapsed.raw < 0
    /\ lastElapsed.ret = 0
    /\ startTime = now /\ pausedTime = 0 /\ tabHiddenAt = 0
    /\ isTabHidden

\* C11: right after a reset, by reset() of the URL poll or by resetTimer() of
\* the reset button, with the tab visible or hidden, getElapsedActiveTime
\* returns 0.
ResetStep ==
    \/ currentPathname' # currentPathname
    \/ evCount' # evCount /\ lastEvent' = "reset"

C11_ZeroAfterReset ==
    [][ResetStep =>
          /\ (GetElapsedActiveTime(Clock).ret = 0)'
          /\ (lastElapsed.called => lastElapsed.ret = 0)']_vars

C11_Witness ==
    /\ lastEvent = "reset" /\ evCount = 2
    /\ docHidden /\ isTabHidden
    /\ startTime = now /\ now = 3
    /\ \E i \in 1..Len(saveQueue) : saveQueue[i].waiter = "reset"

\* C12: the timer's saves run one at a time: only the save at the head of
\* the queue has started, so no save reads the record while another is
\* between its read and the end of its writes.
StartedSaves == {i \in 1..Len(saveQueue) : saveQueue[i].stage # "queued"}

C12_SavesSerialized ==
    StartedSaves \subseteq {1}

C12_Witness ==
    /\ Len(saveQueue) >= 2
    /\ saveQueue[1].waiter = "start" /\ saveQueue[1].stage = "set"
    /\ saveQueue[2].waiter = "show" /\ saveQueue[2].stage = "queued"

\* C14: a run that has persisted the solved record goes on to call the
\* backend push, whether its analysis stage was skipped, succeeded, returned
\* a failure or threw: no run ends without the call, and every run makes it.
Persisted(run) ==
    run.pc \notin {"sleep", "extract_get", "Aborted", "store1_get", "store1_set"}

C14_NoEndWithoutBackend ==
    \A r \in 1..Len(runs) :
        (Persisted(runs[r]) /\ runs[r].pc \in Terminal) => runs[r].backendCalls = 1

C14_BackendAlwaysCalled ==
    /\ []C14_NoEndWithoutBackend
    /\ \A r \in 1..MaxRuns :
          (Len(runs) >= r /\ Persisted(runs[r])) ~>
              (Len(runs) >= r /\ runs[r].backendCalls = 1)

C14_Witness ==
    \E r \in 1..Len(runs) :
        /\ runs[r].analysisCalls = 1
        /\ runs[r].backendCalls = 1
        /\ aiAnalysis = NULL
        /\ hasAnalyzedMistakes /\ gemini_api_key

\* C15: a backend push that fails or throws gives the error notification and
\* the run goes on to the code-host stage; a run whose analysis succeeded,
\* whose backend push failed and whose code-host push succeeded reaches
\* Reset with the stored record solved and tagged and the transient state
\* cleared.
ReachesReset(r) == runs[r].pc # "Reset" /\ runs'[r].pc = "Reset"

C15_BackendStep ==
    \A r \in 1..Len(runs) :
        (runs[r].pc = "backend" /\ runs'[r].pc # "backend") =>
            /\ runs'[r].pc = "settings"
            /\ runs'[r].toast \in {"success", "error"}

C15_OnToCodeHost ==
    \A r \in 1..Len(runs) :
        (runs[r].toast = "error" /\ runs[r].pc \in Terminal) =>
            /\ runs[r].pc # "Aborted"
            /\ github_push_enabled => runs[r].githubCalls = 1

C15_ScenarioStep ==
    \A r \in 1..Len(runs) :
        (/\ ReachesReset(r)
         /\ runs[r].analysisResult = "ok"
         /\ runs[r].toast = "error"
         /\ runs[r].githubResult = "ok") =>
            /\ storage'[runs[r].url].solved.value
            /\ storage'[runs[r].url].aiTags = {"tag"}
            /\ Cleared'

Transient ==
    <<TRIES, PUBLIC_CODE, SELECTED_LANGUAGE, PROBLEM_SLUG, attempts, runCounter,
      incorrectRunCounter, hasAnalyzedMistakes, shouldAnalyzeWithGemini>>

C16_CodeHostStep ==
    \A r \in 1..Len(runs) :
        /\ (runs[r].pc # "github" /\ runs'[r].pc = "github") => Transient' = Transient
        /\ (runs[r].pc = "github" /\ runs'[r].githubResult = "failed") =>
              (runs'[r].pc = "AwaitingRetry" /\ Transient' = Transient)

C16_FailedRunStays ==
    \A r \in 1..Len(runs) :
        runs[r].githubResult = "failed" => runs[r].pc = "AwaitingRetry"

C16_FailedPushKeepsState ==
    [][C16_CodeHostStep]_vars /\ []C16_FailedRunStays

C16_Witness ==
    \E r \in 1..Len(runs) :
        /\ runs[r].pc = "AwaitingRetry" /\ runs[r].githubResult = "failed"
        /\ Len(attempts) = 2 /\ incorrectRunCounter = 2 /\ runCounter = 2
        /\ TRIES = 1 /\ PUBLIC_CODE = 11 /\ SELECTED_LANGUAGE = "cpp"
        /\ hasAnalyzedMistakes /\ shouldAnalyzeWithGemini

\* C17 as stated: at most one stage call of the pipeline (a record write,
\* the analysis, the backend push, the code-host push) is outstanding at
\* any moment, also when a success result arrives while a run is in flight.
StageCalls ==
    {"store1_get", "store1_set", "store2_get", "store2_set", "analyze",
     "backend", "github"}

C17_OneStageAtATime ==
    Cardinality({r \in 1..Len(runs) : runs[r].pc \in StageCalls}) <= 1

(***************************************************************************)
(* Properties of the run event.                                            *)
(***************************************************************************)

\* The code a run event with payload p captures (152).
CapturedCode(p) == OrCode(p.usercode, PUBLIC_CODE)

PendingAttempt(p) ==
    [code |-> CapturedCode(p), language |-> OrStr(p.language, SELECTED_LANGUAGE),
     runNumber |-> runCounter + 1, successful |-> NULL]

\* C29: a run event adds one to the run counter; it appends one pending
\* Attempt numbered with the new run counter when the captured code is longer
\* than the minimum length, and leaves the attempts as they are otherwise; it
\* changes neither the failure counter nor the latch.
C29_RunEventCounts ==
    [][\A p \in RunPayloads :
          CodeRun(p) =>
              /\ runCounter' = runCounter + 1
              /\ attempts' = IF CapturedCode(p) > MinCodeLength
                             THEN Append(attempts, PendingAttempt(p))
                             ELSE attempts
              /\ incorrectRunCounter' = incorrectRunCounter
              /\ hasAnalyzedMistakes' = hasAnalyzedMistakes
              /\ shouldAnalyzeWithGemini' = shouldAnalyzeWithGemini]_vars

\* A run event with a viable code and two with codes too short have arrived:
\* one pending Attempt, numbered 2, and a run counter of 3.
C29_Witness ==
    /\ runCounter = 3
    /\ Len(attempts) = 1
    /\ attempts[1].runNumber = 2 /\ attempts[1].successful = NULL
    /\ lastEvent = "CODE_RUN"

\* The run Attempts with no outcome yet.
PendingAttempts(atts) == {i \in 1..Len(atts) : atts[i].successful = NULL}

RunResultStep == evCount' # evCount /\ lastEvent' = "RUN_RESPONSE"

\* C30: at most one run Attempt is pending in any state, and a run result
\* that arrives while an Attempt is pending sets the outcome of the most
\* recent pending one.
C30_AtMostOnePending == Cardinality(PendingAttempts(attempts)) <= 1

C30_ResultSetsLatestPending ==
    (RunResultStep /\ PendingAttempts(attempts) # {}) =>
        LET last == CHOOSE i \in PendingAttempts(attempts) :
                        \A j \in PendingAttempts(attempts) : j <= i
        IN attempts'[last].successful # NULL

C30_OnePendingAttempt ==
    /\ []C30_AtMostOnePending
    /\ [][C30_ResultSetsLatestPending]_vars

(***************************************************************************)
(* Termination of the pipeline.                                            *)
(***************************************************************************)

\* C28: every run that was started ends in Reset, AwaitingRetry or Aborted,
\* whatever the collaborators return or throw, and a run that has ended stays
\* in the state in which it ended.
C28_EndIsFinal ==
    \A r \in 1..Len(runs) :
        runs[r].pc \in Terminal => runs'[r].pc = runs[r].pc

\* The positions at which a run waits for a call it awaits.
Awaiting ==
    {"sleep", "extract_get", "store1_get", "store1_set", "gemini_init", "analyze",
     "store2_get", "store2_set", "backend", "settings", "github", "remove"}

C28_EndedOrAwaiting ==
    \A r \in 1..Len(runs) : runs[r].pc \in Terminal \cup Awaiting

C28_EveryRunEnds ==
    /\ [][C28_EndIsFinal]_vars
    /\ []C28_EndedOrAwaiting
    /\ \A r \in 1..MaxRuns :
          (Len(runs) >= r) ~> (Len(runs) >= r /\ runs[r].pc \in Terminal)

\* A run whose analysis, backend push and code-host push all threw has ended.
C28_Witness ==
    \E r \in 1..Len(runs) :
        /\ runs[r].pc = "AwaitingRetry"
        /\ runs[r].analysisResult = "failed"
        /\ runs[r].toast = "error"
        /\ runs[r].githubResult = "failed"

(***************************************************************************)
(* Properties of the URL poll.                                             *)
(***************************************************************************)

\* C27: the step in which the tracker sees the pathname change leaves it
\* empty: no attempts, run counter and failure counter 0, latch false, try
\* count 0, no analysis and no tags.
C27_ChangeEmptiesTracker ==
    [][currentPathname' # currentPathname =>
          /\ attempts' = <<>> /\ runCounter' = 0 /\ incorrectRunCounter' = 0
          /\ ~hasAnalyzedMistakes' /\ ~shouldAnalyzeWithGemini'
          /\ TRIES' = 0
          /\ aiAnalysis' = NULL /\ aiTags' = {}]_vars

\* The pathname changed while a run that had obtained an analysis was waiting
\* for the backend push, and the tracker is empty.
C27_Witness ==
    /\ currentPathname = "p2"
    /\ \E r \in 1..Len(runs) :
          /\ runs[r].pc = "backend" /\ runs[r].analysisResult = "ok"
          /\ runs[r].url = "p1"
    /\ attempts = <<>> /\ aiAnalysis = NULL /\ aiTags = {}
    /\ ~hasAnalyzedMistakes /\ TRIES = 0 /\ incorrectRunCounter = 0

(***************************************************************************)
(* Properties of the analysis stage.                                       *)
(***************************************************************************)

\* C26: a run enters the analysis stage only with the latch set; it calls
\* analyzeMistakes only from that stage, only with a key configured and only
\* once; and it writes the record a second time, with the analysis fields,
\* only after a call that succeeded.
C26_StageNeedsLatch ==
    \A r \in 1..Len(runs) :
        (runs'[r].pc = "gemini_init" /\ runs[r].pc # "gemini_init") =>
            hasAnalyzedMistakes /\ shouldAnalyzeWithGemini

C26_CallNeedsKey ==
    \A r \in 1..Len(runs) :
        runs'[r].analysisCalls # runs[r].analysisCalls =>
            /\ runs[r].pc = "gemini_init" /\ gemini_api_key
            /\ runs[r].analysisCalls = 0 /\ runs'[r].analysisCalls = 1

C26_RewriteNeedsResult ==
    \A r \in 1..Len(runs) :
        /\ runs[r].pc \in {"store2_get", "store2_set"} =>
              runs[r].analysisCalls = 1 /\ runs[r].analysisResult = "ok"
        /\ ~gemini_api_key => runs[r].analysisCalls = 0

C26_AnalysisOnlyWhenDue ==
    /\ [][C26_StageNeedsLatch /\ C26_CallNeedsKey]_vars
    /\ []C26_RewriteNeedsResult

\* A latched run with a key called the analysis once, wrote its result to the
\* record and went on to the backend push.
C26_Witness ==
    \E r \in 1..Len(runs) :
        /\ runs[r].pc = "backend"
        /\ runs[r].analysisCalls = 1 /\ runs[r].analysisResult = "ok"
        /\ storage[runs[r].url].aiTags = {"tag"}
        /\ gemini_api_key /\ shouldAnalyzeWithGemini

(***************************************************************************)
(* Properties of the failure counters.                                     *)
(***************************************************************************)

\* The failures counted beyond the failed run Attempts recorded.
FailedSubmits == incorrectRunCounter - FailedAttempts

\* C25: failed submit results are counted apart from failed runs, so the
\* latch is set only in a state with two failed runs or with three failed
\* submissions.
C25_NoMixLatches ==
    [][(hasAnalyzedMistakes' /\ ~hasAnalyzedMistakes) =>
          \/ FailedAttempts' >= RunFailThreshold
          \/ FailedSubmits' >= SubmitFailThreshold]_vars

(***************************************************************************)
(* Properties of the visibility handler.                                   *)
(***************************************************************************)
ShowStep == docHidden /\ ~docHidden'

\* C21: a show event that follows a hide event of an active session adds the
\* time between the two events to pausedTime, and pausedTime is changed by no
\* step other than a show event, a reset, a load and a correction.
C21_ShowAddsHiddenTime ==
    [][/\ (ShowStep /\ hideEventAt # 0 /\ startTime # 0) =>
              pausedTime' = pausedTime + (now - hideEventAt)
       /\ pausedTime' # pausedTime => (ShowStep \/ ClockRestarted)]_vars

\* reset() has run in the URL poll with a session active.
ResetReturned ==
    /\ currentPathname' # currentPathname
    /\ timerLoaded /\ problemUrl # NULL

\* C22: when reset() has returned, the record stored for the session that was
\* reset holds the startTime the reset set and pausedTime 0.
C22_ResetPersists ==
    [][ResetReturned =>
          /\ storage'[problemUrl].problemStartTime = now
          /\ storage'[problemUrl].pausedTime = 0]_vars

(***************************************************************************)
(* Properties of saveToStorage.                                            *)
(***************************************************************************)
OtherFields(rec) == [rec EXCEPT !.problemStartTime = 0, !.pausedTime = 0]

\* C23: a write of the timer changes no field of a stored record other than
\* problemStartTime and pausedTime (every write of this specification is a
\* timer save).
C23_SaveKeepsOtherFields ==
    [][\A k \in Keys : OtherFields(storage'[k]) = OtherFields(storage[k])]_vars

\* A save has replaced the timer fields of a record that holds a solved entry
\* and tags.
C23_Witness ==
    /\ storage["s2"].solved.value
    /\ storage["s2"].aiTags = {"tag"}
    /\ storage["s2"].problemStartTime > 1
    /\ storage["s2"].pausedTime = 0

\* A storage call of the started save i rejects in this step.
SaveFails(i) ==
    /\ lastEvent' = "save_failed"
    /\ saveQueue[i].stage # "queued"
    /\ Len(saveQueue') < Len(saveQueue)
    /\ \A j \in 1..(i - 1) : saveQueue'[j] = saveQueue[j]
    /\ \A j \in i..Len(saveQueue') : saveQueue'[j].waiter = saveQueue[j + 1].waiter

\* C24: when a storage call of a save rejects, the save leaves the queue and
\* its caller goes on (the show handler clears tabHiddenAt, startTimer shows
\* the overlay), and the save queued behind it is started in the same step;
\* the first save of a non-empty queue is always started, and the queue is
\* empty again and again.
C24_FailureResolves ==
    \A i \in 1..Len(saveQueue) :
        SaveFails(i) =>
            /\ saveQueue[i].waiter = "show" => tabHiddenAt' = 0
            /\ saveQueue[i].waiter = "start" => overlay'
            /\ (i = 1 /\ Len(saveQueue) > 1) => saveQueue'[1].stage = "get"

C24_HeadIsStarted ==
    saveQueue # <<>> => saveQueue[1].stage \in {"get", "set", "pos"}

C24_FailedSaveDoesNotStall ==
    /\ [][C24_FailureResolves]_vars
    /\ []C24_HeadIsStarted
    /\ []<>(saveQueue = <<>>)

\* A save has just failed and the save queued behind it has started.
C24_Witness ==
    /\ lastEvent = "save_failed"
    /\ saveQueue # <<>>
    /\ saveQueue[1].stage = "get"
    /\ storage["s1"].problemStartTime = 0
    /\ startTime # 0

(***************************************************************************)
(* Properties of startTimer.                                               *)
(***************************************************************************)

\* The URL poll calls reset() and then startTimer with the id of the active
\* session.
SameProblemStart ==
    /\ currentPathname' # currentPathname
    /\ timerLoaded
    /\ SlugOf(locationPath) = problemUrl

\* C19: startTimer called with the id of the active session changes no timer
\* state and writes nothing: after the step the clock is the one reset() left
\* (startTime, pausedTime and the hidden tracking), the session id is the
\* same, no load and no save has been started and the store is unchanged.
C19_SameIdStartIsNoOp ==
    [][SameProblemStart =>
          /\ startTime' = now /\ pausedTime' = 0
          /\ isTabHidden' = docHidden /\ tabHiddenAt' = 0
          /\ problemUrl' = problemUrl
          /\ loads' = loads
          /\ saveQueue' = saveQueue
          /\ storage' = storage]_vars

\* The page moved to another page of the same problem id while the timer was
\* idle, and the poll has run.
C19_Witness ==
    /\ currentPathname = "p3" /\ locationPath = "p3"
    /\ problemUrl = "s1"
    /\ evCount = 1 /\ lastEvent = "navigation"
    /\ startTime = now /\ overlay
    /\ loads = <<>> /\ saveQueue = <<>>

\* loadFromStorage of the start i has read its record.
RecordRead(i) ==
    /\ i <= Len(loads') /\ loads[i].pc = "record" /\ loads'[i].pc = "position"

\* The start i, which read its record, goes on with no startTime and starts
\* at the clock.
FreshStart(i) ==
    /\ loads[i].pc = "position" /\ Len(loads') < Len(loads)
    /\ startTime = 0

HasTimerRecord(id) == storage[id].problemStartTime # 0

\* C20: a start that reads its record leaves the in-memory session with the
\* startTime and pausedTime persisted for the active id when a record of that
\* id exists, and a start begins at the clock with pausedTime 0 only when no
\* record of the active id exists.
C20_StartsFromRecordOrNow ==
    [][\A i \in 1..Len(loads) :
          /\ (RecordRead(i) /\ HasTimerRecord(problemUrl)) =>
                /\ startTime' = storage[problemUrl].problemStartTime
                /\ pausedTime' = storage[problemUrl].pausedTime
          /\ FreshStart(i) => ~HasTimerRecord(problemUrl)]_vars

(***************************************************************************)
(* Properties of the website-auth content script.                          *)
(***************************************************************************)
Unanswered(q) == ~q.answer.sent

\* C18: a request that is unanswered when its timeout fires is answered by it
\* with the failure result (isAuthenticated or success false, error
\* "Timeout"); an answer once delivered stands; an unanswered request has its
\* timeout pending, not overdue; and every request received is eventually
\* answered.
C18_TimeoutAnswersFailure ==
    \A i \in 1..Len(authRequests) :
        (authRequests[i].timer /\ ~authRequests'[i].timer /\ Unanswered(authRequests[i])) =>
            authRequests'[i].answer = Answer(FALSE, "Timeout")

C18_AnswerStands ==
    \A i \in 1..Len(authRequests) :
        ~Unanswered(authRequests[i]) => authRequests'[i].answer = authRequests[i].answer

C18_UnansweredIsTimed ==
    \A i \in 1..Len(authRequests) :
        Unanswered(authRequests[i]) =>
            authRequests[i].timer /\ authRequests[i].waited <= AuthTimeout

C18_EveryRequestAnswered ==
    \A i \in 1..MaxAuthRequests :
        (Len(authRequests) >= i) ~> (Len(authRequests) >= i /\ ~Unanswered(authRequests[i]))

C18_BoundedWait ==
    /\ [][C18_TimeoutAnswersFailure /\ C18_AnswerStands]_vars
    /\ []C18_UnansweredIsTimed
    /\ C18_EveryRequestAnswered

\* A sign-out request and an auth-status request were both answered by their
\* timeouts alone.
C18_Witness ==
    /\ Len(authRequests) = 2
    /\ authRequests[1].type # authRequests[2].type
    /\ \A i \in 1..2 :
          /\ authRequests[i].answer = Answer(FALSE, "Timeout")
          /\ authRequests[i].calls = 1
          /\ authRequests[i].waited = AuthTimeout


(***************************************************************************)
(* Properties of the stored try count.                                     *)
(***************************************************************************)

\* The first write of run r (473) completes in this step.
SolvedPersisted(r) ==
    /\ r <= Len(runs)
    /\ runs[r].pc = "store1_set"
    /\ runs'[r].pc # "store1_set"

\* C31: when the persist-solved stage of a pipeline run completes, the stored
\* record's solved.tries equals the try count accumulated for the current
\* problem, also when the record was already solved by an earlier run.
\* (Stated for a run that follows at least one submit event: with none
\* recorded the stage stores TRIES || 1, 379.)
C31_TriesStored ==
    [][\A r \in 1..Len(runs) :
          (SolvedPersisted(r) /\ TRIES' > 0) =>
              storage'[runs[r].url].solved.tries = TRIES']_vars


(***************************************************************************)
(* Properties of the merge done by a ProblemRecord write.                  *)
(***************************************************************************)

\* Run r's storage.set resolves in this step, written with no analysis result
\* in memory.
WriteWithoutAnalysis(r) ==
    /\ r <= Len(runs)
    /\ runs[r].pc \in {"store1_set", "store2_set"}
    /\ runs'[r].pc # runs[r].pc
    /\ runs[r].pending.aiAnalysis = NULL
    /\ runs[r].pending.aiTags = {}

\* C32: a ProblemRecord write merges with the stored record: the analysis
\* summary and tags stored by an earlier run are still in the record after a
\* later write made with no analysis result.
C32_WriteKeepsAnalysis ==
    [][\A r \in 1..Len(runs) :
          WriteWithoutAnalysis(r) =>
              /\ storage'[runs[r].url].aiAnalysis = storage[runs[r].url].aiAnalysis
              /\ storage'[runs[r].url].aiTags = storage[runs[r].url].aiTags]_vars


(***************************************************************************)
(* Properties of the argument of the analysis call.                        *)
(***************************************************************************)

\* The positions of the Attempts whose code is longer than the minimum.
LongAttempts(atts) == {i \in 1..Len(atts) : atts[i].code > MinCodeLength}

\* arg holds the Attempts of atts at the positions in LongAttempts(atts), in
\* the order of atts, and nothing else.
SelectsInOrder(arg, atts) ==
    /\ Len(arg) = Cardinality(LongAttempts(atts))
    /\ \A i \in LongAttempts(atts) :
          arg[Cardinality({j \in LongAttempts(atts) : j <= i})] = atts[i]

\* Run r calls analyzeMistakes in this step.
AnalysisCalled(r) ==
    /\ r <= Len(runs)
    /\ runs'[r].analysisCalls > runs[r].analysisCalls

\* C33: the analysis service receives, in recording order, exactly the
\* Attempts of the current problem whose code is longer than the minimum
\* length, successful and failed alike.
C33_AnalysisGetsAllAttempts ==
    [][\A r \in 1..Len(runs) :
          AnalysisCalled(r) => SelectsInOrder(runs'[r].analysisArg, attempts)]_vars

\* An analysis call was made with two failed Attempts and a successful one.
C33_Witness ==
    \E r \in 1..Len(runs) :
        /\ runs[r].analysisCalls = 1
        /\ Len(runs[r].analysisArg) = 3
        /\ runs[r].analysisArg[1].successful = "false"
        /\ runs[r].analysisArg[3].successful = "true"


(***************************************************************************)
(* Properties of the hidden-since mark.                                    *)
(***************************************************************************)

\* C34: while the tab is hidden after a hide event of an active session
\* (hideEventAt holds the time of that event), tabHiddenAt stays set
\* until the next show event, for every interleaving of visibility events
\* with the show handler's awaited save: isTabHidden = true with
\* tabHiddenAt = null is not reachable.
C34_HiddenSinceSet ==
    hideEventAt # 0 => (isTabHidden /\ tabHiddenAt # 0)


(***************************************************************************)
(* Properties of the session id of loads and saves.                        *)
(***************************************************************************)

\* A started save uses the key of the id that was active when it was requested.
C35_SaveUnderOwnKey ==
    \A i \in 1..Len(saveQueue) :
        saveQueue[i].stage # "queued" => saveQueue[i].key = saveQueue[i].requestedFor

\* A load that sets the in-memory clock from the record it read (246-247)
\* read the record of the active id.
C35_LoadForActiveId ==
    \A i \in 1..Len(loads) :
        (loads[i].pc = "record" /\ startTime' = storage[loads[i].key].problemStartTime
            /\ Len(loads') = Len(loads) /\ loads'[i].pc = "position")
        => loads[i].key = problemUrl

\* C35: the timer record stored under a session id's key only receives values
\* of that session id, for every interleaving of start() calls, visibility
\* events and queued saves: a save requested while one id was active is never
\* applied under another id's key, and a load for one id never overwrites the
\* in-memory clock after another id became active.
C35_SessionIsolation ==
    /\ []C35_SaveUnderOwnKey
    /\ [][C35_LoadForActiveId]_vars


(***************************************************************************)
(* Properties of the final reset under events that arrive during a run.    *)
(***************************************************************************)

\* Run r ends with the state reset in this step.
RunResets(r) == r <= Len(runs) /\ runs[r].pc # "Reset" /\ runs'[r].pc = "Reset"

\* The Attempts recorded after the success result that started run r, while
\* the page stayed on the problem of the run.
LateAttempts(r) ==
    IF currentPathname = runs[r].url
    THEN {i \in 1..Len(attempts) : attempts[i].runNumber > runs[r].runsAtStart}
    ELSE {}

\* The reset keeps the Attempts and the run count of the events that arrived
\* while the run was in flight.
C36_LateEventsKept ==
    \A r \in 1..Len(runs) :
        (RunResets(r) /\ LateAttempts(r) # {}) =>
            /\ Len(attempts') = Cardinality(LateAttempts(r))
            /\ runCounter' = runCounter - runs[r].runsAtStart

\* The reset keeps the state recorded for a problem entered during the run.
C36_NewProblemKept ==
    \A r \in 1..Len(runs) :
        (RunResets(r) /\ currentPathname # runs[r].url) =>
            UNCHANGED <<attempts, runCounter, incorrectRunCounter, TRIES, cacheVars>>

\* C36: a pipeline run's final reset discards only transient state of the
\* submission that triggered it: run attempts, counters, try count and cached
\* code recorded by events that arrive while the run is in flight, or
\* belonging to a new problem identity entered during the run, are still
\* present after the run ends.
C36_ResetSparesLaterState ==
    /\ [][C36_LateEventsKept]_vars
    /\ [][C36_NewProblemKept]_vars


(***************************************************************************)
(* Properties of the number of sendResponse calls.                         *)
(***************************************************************************)

\* C37: each auth-status or sign-out request is answered by one sendResponse
\* call: after a response was sent (from the cache, from the website's reply
\* or from the error path) the timeout does not send a second one.
C37_OneSendResponse ==
    \A i \in 1..Len(authRequests) : authRequests[i].calls <= 1


(***************************************************************************)
(* Properties of the stored session.                                       *)
(***************************************************************************)

\* The set of run i's storeSession is applied in this step.
SessionStoredBy(i) ==
    /\ i <= Len(authOps)
    /\ OldestStorageOp(i)
    /\ authOps[i].pc = "set"
    /\ authOps' = Remove(authOps, i)

C38_TokenOfStoredUser ==
    (auth_user # NULL /\ auth_token # NoToken) => auth_token.user = auth_user

C38_TokenlessLoginStoresNone ==
    \A i \in 1..Len(authOps) :
        (SessionStoredBy(i) /\ authOps[i].kind = "login" /\ authOps[i].token = NoToken)
        => auth_token' = NoToken

\* C38: whenever auth_user and auth_token are both stored, the token is the
\* one obtained by the login that stored that user; a login whose response
\* carries no token does not leave an earlier login's token stored next to
\* the new user.
C38_SessionConsistent ==
    /\ []C38_TokenOfStoredUser
    /\ [][C38_TokenlessLoginStoresNone]_vars

\* The remove of a signOut is applied in this step: the signOut completes.
SignOutCompletes(i) ==
    /\ i <= Len(authOps)
    /\ authOps[i].kind = "signOut"
    /\ OldestStorageOp(i)
    /\ authOps' = Remove(authOps, i)

C39_SignedOutMemory ==
    ~isAuthenticated => (user = NULL /\ token = NoToken)

C39_SignOutClearsStore ==
    \A i \in 1..Len(authOps) :
        SignOutCompletes(i) =>
            (auth_user' = NULL /\ auth_token' = NoToken /\ ~auth_timestamp')

\* C39: after any sequence of login, signOut, syncFromStorage and
\* updateAuthStatus calls, isAuthenticated = false implies user = null and
\* token = null in memory, and when a signOut completes no auth_user,
\* auth_token or auth_timestamp remains in storage.
C39_SignedOutIsEmpty ==
    /\ []C39_SignedOutMemory
    /\ [][C39_SignOutClearsStore]_vars

\* A signOut has cleared the memory of a session and its remove is
\* outstanding over the stored session.
C39_Witness ==
    /\ ~isAuthenticated /\ user = NULL /\ token = NoToken
    /\ auth_user # NULL /\ auth_token # NoToken
    /\ \E i \in 1..Len(authOps) : authOps[i].kind = "signOut"
    /\ authCalls >= 2


(***************************************************************************)
(* Properties of the interceptor.                                          *)
(***************************************************************************)

\* C40: the interceptor is transparent to the page: every call of the wrapped
\* send invokes the original send once with the same argument, also when the
\* body of a run or submit request cannot be parsed, and a failed parse posts
\* no CODE_RUN or CODE_SUBMIT event.
C40_Transparent ==
    \A i \in 1..Len(xhrs) :
        xhrs[i].pc # "opened" =>
            /\ xhrs[i].sent = 1
            /\ xhrs[i].passed = xhrs[i].body
            /\ ParseThrows(xhrs[i].body) => xhrs[i].posted = "none"

==============================================================================
